---- MODULE Spec2Model ----
(***************************************************************************)
(* A model of jeypiti/n-body-sim: the direct-sum and Barnes-Hut force      *)
(* models, the integrator framework and the energy diagnostics.            *)
(*                                                                         *)
(* Numbers.  The program computes in IEEE doubles.  The model computes in  *)
(* exact arithmetic: a rational is a reduced pair <<n, d>>, and a real of  *)
(* the form  SUM c_f * f^(-1/2)  (f squarefree, c_f a non-zero rational)   *)
(* is the function f |-> c_f.  Every inverse distance and inverse cube     *)
(* distance between points with rational coordinates has this form, and    *)
(* the form is canonical, so equality of two model values is equality of   *)
(* the real numbers.  NaN is the one value with the radicand 0.            *)
(***************************************************************************)
EXTENDS Integers, Sequences, FiniteSets, TLC

\* barnes_hut.py: the module globals, and per call of acceleration its
\* arguments, its locals and where it stands
VARIABLES positions, masses,
          pc, arg_m, arg_pos, arg_theta, root, body_idx, result, visited,
          calls_made

bh_vars == <<positions, masses, pc, arg_m, arg_pos, arg_theta, root, body_idx,
             result, visited, calls_made>>

\* direct_sum.py: the arguments, the loop indices and result of acceleration,
\* the pairs whose term it evaluated, and the arrays of acceleration_vec
VARIABLES ds_pc, ds_masses, ds_pos, ds_m1, ds_m2, ds_result, ds_evaluated,
          vec_dx, vec_dy, vec_factor, vec_result

ds_vars == <<ds_pc, ds_masses, ds_pos, ds_m1, ds_m2, ds_result, ds_evaluated,
             vec_dx, vec_dy, vec_factor, vec_result>>

\* utils.solver and integrators.py: the arguments of one integrator call, the
\* trajectory buffers, the locals of the integrator, the table of the array
\* values computed so far, and the number of calls of the acceleration function
VARIABLES sv_pc, sv_method, sv_n, sv_pos_shape, sv_vel_shape, sv_time_steps,
          sv_pos, sv_vel, rk_k, rk_j, sv_tmp, time_idx, stmt, sub_step,
          defs, acc_calls, sv_checks

sv_vars == <<sv_pc, sv_method, sv_n, sv_pos_shape, sv_vel_shape, sv_time_steps,
             sv_pos, sv_vel, rk_k, rk_j, sv_tmp, time_idx, stmt, sub_step,
             defs, acc_calls, sv_checks>>

\* utils.calculate_energy: the trajectory it is given, the tasks of pool.map,
\* the workers of the pool and the frames of their _get_energy_at_time calls,
\* the list pool.map collects, the order the tasks finished in and the three
\* series returned
VARIABLES en_pc, en_masses, en_pos, en_vel, task_state, w_step, w_time_idx,
          w_kin_energy, w_pot_energy, map_result, en_finished, en_evals, en_out

en_vars == <<en_pc, en_masses, en_pos, en_vel, task_state, w_step, w_time_idx,
             w_kin_energy, w_pot_energy, map_result, en_finished, en_evals, en_out>>

vars == <<bh_vars, ds_vars, sv_vars, en_vars>>

----------------------------------------------------------------------------
(* Bounds of the model *)

\* bodies per force evaluation: n in 1..MaxBodies
MaxBodies == 3
\* coordinates of the bodies handed to the force models: 0..MaxCoord
MaxCoord == 3
\* masses: 1..MaxMass
MaxMass == 2
\* time steps of an integrator call: time_steps in 1..MaxSteps
MaxSteps == 3
\* columns of the initial-condition arrays handed to an integrator: 1..MaxCols
MaxCols == 3
\* depth at which the recursion of Quad.add_body is cut (the interpreter's
\* recursion limit, scaled down): a deeper call raises RecursionError
MaxDepth == 6

\* the energy diagnostics are run on trajectories of at most MaxBodiesEN
\* bodies with start coordinates and start velocities in 0..MaxCoordEN
MaxBodiesEN == 2

MaxCoordEN == 1

\* overlapping and repeated calls of barnes_hut.acceleration: at most
\* MaxBodiesRun bodies with coordinates in 0..MaxCoordRun, at most MaxCalls
\* calls in a row, masses in 1..MaxMassConc in overlapping calls
MaxBodiesRun == 2

MaxMassConc == 1

MaxCoordRun == 1

MaxCalls == 2

\* bodies spread along a strip: x in 0..MaxStripX, y in 0..MaxStripY
MaxStripX == 4

MaxStripY == 1

----------------------------------------------------------------------------
(* Exact arithmetic *)

Abs(a) == IF a < 0 THEN -a ELSE a

Max2(a, b) == IF a >= b THEN a ELSE b

Min2(a, b) == IF a <= b THEN a ELSE b

RECURSIVE Gcd(_, _)
Gcd(a, b) == IF b = 0 THEN a ELSE Gcd(b, a % b)

RECURSIVE Pow2(_)
Pow2(e) == IF e = 0 THEN 1 ELSE 2 * Pow2(e - 1)

\* the rational n / d, reduced, with a positive denominator (d # 0)
Rat(n, d) ==
    LET g == Gcd(Abs(n), Abs(d))
        s == IF d < 0 THEN -1 ELSE 1
    IN  <<(s * n) \div g, (s * d) \div g>>

RatInt(a) == <<a, 1>>

RatAdd(p, q) == Rat(p[1] * q[2] + q[1] * p[2], p[2] * q[2])

RatSub(p, q) == Rat(p[1] * q[2] - q[1] * p[2], p[2] * q[2])

RatMul(p, q) == Rat(p[1] * q[1], p[2] * q[2])

\* p / q, q # 0
RatDiv(p, q) == Rat(p[1] * q[2], p[2] * q[1])

RatLess(p, q) == p[1] * q[2] < q[1] * p[2]

\* the largest t >= s with t * t dividing q, or best if there is none
RECURSIVE SquarePartFrom(_, _, _)
SquarePartFrom(q, s, best) ==
    IF s * s > q THEN best
    ELSE SquarePartFrom(q, s + 1, IF q % (s * s) = 0 THEN s ELSE best)

\* the largest s with s * s dividing q (q >= 1)
SquarePart(q) == SquarePartFrom(q, 1, 1)

\* not a number: 0 * inf, and every sum or product with it
NaN == [f \in {0} |-> <<0, 0>>]

\* the real number 0: the empty sum
RealZero == [f \in {} |-> <<0, 1>>]

\* c * f^(-1/2), f squarefree
RealTerm(c, f) == IF c[1] = 0 THEN RealZero ELSE [g \in {f} |-> c]

RealRat(c) == RealTerm(c, 1)

RealCoef(a, f) == IF f \in DOMAIN a THEN a[f] ELSE <<0, 1>>

RealAdd(a, b) ==
    IF a = NaN \/ b = NaN THEN NaN
    ELSE LET D == {f \in (DOMAIN a) \cup (DOMAIN b) :
                      RatAdd(RealCoef(a, f), RealCoef(b, f))[1] # 0}
         IN  [f \in D |-> RatAdd(RealCoef(a, f), RealCoef(b, f))]

\* the rational c times the real a
RealScale(c, a) ==
    IF a = NaN THEN NaN
    ELSE IF c[1] = 0 THEN RealZero
    ELSE [f \in DOMAIN a |-> RatMul(c, a[f])]

RealSub(a, b) == RealAdd(a, RealScale(<<-1, 1>>, b))

\* (n / d) ^ (-1/2) for a rational n / d > 0:  sqrt(d / n) = sqrt(n * d) / n
InvSqrt(r) ==
    LET q == r[1] * r[2]
        s == SquarePart(q)
        f == q \div (s * s)
    IN  \* sqrt(q) / n = s * sqrt(f) / n = (s * f / n) * f^(-1/2)
        RealTerm(Rat(s * f, r[1]), f)

\* r ^ (-1.5) for a rational r > 0:  r^(-1) * r^(-1/2)
InvCube(r) == RealScale(RatDiv(<<1, 1>>, r), InvSqrt(r))

\* 2-vectors of reals
VecZero == <<RealZero, RealZero>>

VecNaN == <<NaN, NaN>>

VecAdd(u, v) == <<RealAdd(u[1], v[1]), RealAdd(u[2], v[2])>>

VecSub(u, v) == <<RealSub(u[1], v[1]), RealSub(u[2], v[2])>>

\* the rational c times the vector v of rationals, then times the real a
VecScale(v, a) == <<RealScale(v[1], a), RealScale(v[2], a)>>

----------------------------------------------------------------------------
(* Inputs of the force models *)

\* body indices of an array of n rows, as in the program: 0..n-1
Rows(n) == 0..(n - 1)

Coords == 0..MaxCoord

Points == Coords \X Coords

PosArrays(n) == [Rows(n) -> Points]

MassArrays(n) == [Rows(n) -> 1..MaxMass]

Len0(a) == Cardinality(DOMAIN a)

Distinct(pos) == \A i, k \in DOMAIN pos : i # k => pos[i] # pos[k]

\* theta as a rational: the default 0.5, and 0
ThetaDefault == <<1, 2>>

ThetaZero == <<0, 1>>

----------------------------------------------------------------------------
(* barnes_hut.py: the quadtree *)

\* Quad coordinates are kept in units of 1 / Scale, so that the half-size of
\* every quad down to the recursion limit is an integer
Scale == Pow2(MaxDepth + 2)

\* Quad.body = None
NoBody == -1

\* the tree without any quad (no root built, or the root dropped)
NoTree == [p \in {} |-> 0]

\* Quad.__init__(x, y, size), size in units of 1 / Scale.  com_view is the
\* row of positions whose memory the array center_of_mass shares (indexing
\* positions[body_idx] gives a view), NoBody for an array of its own, as
\* np.array((0.0, 0.0)) is
Quad(x, y, size) ==
    [x |-> x, y |-> y, radius |-> size \div 2, body |-> NoBody,
     center_of_mass |-> <<RatInt(0), RatInt(0)>>, com_view |-> NoBody,
     total_mass |-> 0]

\* a tree is a function from paths (the quadrant indices from the root down)
\* to quads; Quad.children[q] is the quad at Append(path, q), None if absent
Children(tree, path) == {q \in 0..3 : Append(path, q) \in DOMAIN tree}

\* Quad.is_internal
is_internal(tree, path) == Children(tree, path) # {}

\* a variant that sends a body on the dividing line to the greater half
get_sub_quad_index_ge(quad, p) ==
    IF p[1] * Scale >= quad.x + quad.radius
    THEN (IF p[2] * Scale >= quad.y + quad.radius THEN 3 ELSE 1)
    ELSE (IF p[2] * Scale >= quad.y + quad.radius THEN 2 ELSE 0)

\* Quad.get_sub_quad_index, for a body at p = <<px, py>>
get_sub_quad_index(quad, p) ==
    IF p[1] * Scale > quad.x + quad.radius
    THEN (IF p[2] * Scale > quad.y + quad.radius THEN 3 ELSE 1)
    ELSE (IF p[2] * Scale > quad.y + quad.radius THEN 2 ELSE 0)

\* the lower left corner of the new sub-quad sub_quad_idx.  In the program
\* new_x = self.x + self.radius * sub_quad_idx % 2, where * and % have the
\* same precedence and associate to the left: (radius * idx) % 2
new_x(quad, sub_quad_idx) ==
    quad.x + ((quad.radius * sub_quad_idx) % (2 * Scale))

new_y(quad, sub_quad_idx) ==
    quad.y + quad.radius * (IF sub_quad_idx >= 2 THEN 1 ELSE 0)

\* Quad.get_sub_quad: the tree with the sub-quad for a body at p created if
\* it does not exist yet
get_sub_quad(tree, path, p) ==
    LET quad == tree[path]
        i == get_sub_quad_index(quad, p)
        cp == Append(path, i)
    IN  IF cp \in DOMAIN tree THEN tree
        ELSE tree @@ (cp :> Quad(new_x(quad, i), new_y(quad, i), quad.radius))

sub_quad_path(tree, path, p) == Append(path, get_sub_quad_index(tree[path], p))

\* a merge that forgets to weigh the old centre: (center_of_mass + m * p) / (total_mass + m)
merge_center_of_mass_unweighted(total_mass, center_of_mass, m, p) ==
    [k \in 1..2 |->
        RatDiv(RatAdd(center_of_mass[k], RatInt(m * p[k])), RatInt(total_mass + m))]

\* (total_mass * center_of_mass + m * p) / (total_mass + m)
merge_center_of_mass(total_mass, center_of_mass, m, p) ==
    [k \in 1..2 |->
        RatDiv(RatAdd(RatMul(RatInt(total_mass), center_of_mass[k]),
                      RatInt(m * p[k])),
               RatInt(total_mass + m))]

\* a variant that stores the value into the array the attribute refers to
\* (self.center_of_mass[:] = ...): a view stays a view, its row is written
assign_center_of_mass_in_place(quad, value) ==
    [quad EXCEPT !.center_of_mass = value]

\* self.center_of_mass = (...) / (...): the attribute is bound to the new
\* array the expression made; the array it referred to is not written
assign_center_of_mass(quad, value) ==
    [quad EXCEPT !.center_of_mass = value, !.com_view = NoBody]

\* the quad at path after the two aggregate updates that end the internal
\* and the filled-external branch of add_body
merge_body(quad, m, p) ==
    [assign_center_of_mass(
         quad, merge_center_of_mass(quad.total_mass, quad.center_of_mass, m, p))
     EXCEPT !.total_mass = quad.total_mass + m]

\* a variant that takes every external quad as unfilled
is_unfilled_always(quad) == TRUE

\* elif self.body is None
is_unfilled(quad) == quad.body = NoBody

\* a variant that leaves the occupant in the slot
clear_body_kept(quad) == quad

\* self.body = None, after the occupant was handed to a child
clear_body(quad) == [quad EXCEPT !.body = NoBody]

Raised(tree, e) == [tree |-> tree, err |-> e]

Done(tree) == [tree |-> tree, err |-> ""]

\* Quad.add_body(body_idx = b) on the quad at path, reading the module globals
\* positions and masses (P, M).  The result is the new tree, or the exception:
\* RecursionError past the recursion limit, IndexError for a body index the
\* globals do not have
RECURSIVE add_body(_, _, _, _, _)
add_body(tree, path, b, P, M) ==
    IF Len(path) > MaxDepth THEN Raised(tree, "RecursionError")
    ELSE IF is_internal(tree, path) THEN
        IF b \notin DOMAIN P THEN Raised(tree, "IndexError")
        ELSE
        LET p == P[b]
            r == add_body(get_sub_quad(tree, path, p), sub_quad_path(tree, path, p),
                          b, P, M)
        IN  IF r.err # "" THEN r
            ELSE IF b \notin DOMAIN M THEN Raised(r.tree, "IndexError")
            ELSE Done([r.tree EXCEPT ![path] = merge_body(@, M[b], p)])
    ELSE IF is_unfilled(tree[path]) THEN
        IF b \notin DOMAIN P \/ b \notin DOMAIN M
        THEN Raised(tree, "IndexError")
        ELSE Done([tree EXCEPT ![path] =
                      [@ EXCEPT !.body = b,
                                !.center_of_mass = <<RatInt(P[b][1]),
                                                     RatInt(P[b][2])>>,
                                !.com_view = b,
                                !.total_mass = M[b]]])
    ELSE
        LET old == tree[path].body
        IN  IF old \notin DOMAIN P THEN Raised(tree, "IndexError")
            ELSE
            LET po == P[old]
                r1 == add_body(get_sub_quad(tree, path, po), sub_quad_path(tree, path, po),
                               old, P, M)
            IN  IF r1.err # "" THEN r1
                ELSE IF b \notin DOMAIN P THEN Raised(r1.tree, "IndexError")
                ELSE
                LET t1 == [r1.tree EXCEPT ![path] = clear_body(@)]
                    p == P[b]
                    r2 == add_body(get_sub_quad(t1, path, p), sub_quad_path(t1, path, p),
                                   b, P, M)
                IN  IF r2.err # "" THEN r2
                    ELSE IF b \notin DOMAIN M THEN Raised(r2.tree, "IndexError")
                    ELSE Done([r2.tree EXCEPT ![path] = merge_body(@, M[b], p)])

\* maxs, mins, root_size, root_pos and the root quad of acceleration
ColMax(pos, k) == CHOOSE v \in {pos[i][k] : i \in DOMAIN pos} :
                      \A i \in DOMAIN pos : pos[i][k] <= v

ColMin(pos, k) == CHOOSE v \in {pos[i][k] : i \in DOMAIN pos} :
                      \A i \in DOMAIN pos : pos[i][k] >= v

root_size(pos) == Max2(ColMax(pos, 1) - ColMin(pos, 1), ColMax(pos, 2) - ColMin(pos, 2))

\* 0.5 * (maxs + mins - root_size), in units of 1 / Scale
root_pos(pos) ==
    [k \in 1..2 |-> ((ColMax(pos, k) + ColMin(pos, k) - root_size(pos)) * Scale) \div 2]

build_root(pos) ==
    (<< >> :> Quad(root_pos(pos)[1], root_pos(pos)[2], root_size(pos) * Scale))

----------------------------------------------------------------------------
(* The pairwise term shared by the force models *)

RatVec(p) == <<RatInt(p[1]), RatInt(p[2])>>

RatVecSub(u, v) == <<RatSub(u[1], v[1]), RatSub(u[2], v[2])>>

\* dist.dot(dist)
Dot(dist) == RatAdd(RatMul(dist[1], dist[1]), RatMul(dist[2], dist[2]))

\* m * dist * dist.dot(dist) ** -1.5 for a vector dist of rationals.  For
\* dist = 0 the power is inf and the product 0 * inf is NaN
inverse_square_term(m, dist) ==
    IF Dot(dist)[1] = 0 THEN VecNaN
    ELSE VecScale(<<RatMul(RatInt(m), dist[1]), RatMul(RatInt(m), dist[2])>>,
                  InvCube(Dot(dist)))

----------------------------------------------------------------------------
(* barnes_hut.py: the traversal *)

\* 4 * quad.radius ** 2 < theta ** 2 * norm_sq
far_enough(quad, theta, norm_sq) ==
    RatLess(Rat(4 * quad.radius * quad.radius, Scale * Scale),
            RatMul(RatMul(theta, theta), norm_sq))

Visit(acc, kind, path) == [acc |-> acc, err |-> "", visits |-> <<<<kind, path>>>>]

Failed(e) == [acc |-> VecNaN, err |-> e, visits |-> << >>]

\* _calculate_acceleration(quad, body_idx = b, theta) for the quad at path,
\* reading the module globals positions and masses (P, M).  visits lists, in the
\* order of the traversal, the quads that returned a value and by which
\* branch: "approx", "direct" or "self"
RECURSIVE calculate_acceleration(_, _, _, _, _, _)
children_acceleration(tree, path, b, theta, P, M) ==
    LET step(r, q) ==
            IF r.err # "" \/ Append(path, q) \notin DOMAIN tree THEN r
            ELSE LET c == calculate_acceleration(tree, Append(path, q), b,
                                                 theta, P, M)
                 IN  IF c.err # "" THEN c
                     ELSE [acc |-> VecAdd(r.acc, c.acc), err |-> "",
                           visits |-> r.visits \o c.visits]
        zero == [acc |-> VecZero, err |-> "", visits |-> << >>]
    IN  step(step(step(step(zero, 0), 1), 2), 3)

calculate_acceleration(tree, path, b, theta, P, M) ==
    IF b \notin DOMAIN P THEN Failed("IndexError")
    ELSE
    LET quad == tree[path]
        dist == RatVecSub(quad.center_of_mass, RatVec(P[b]))
        norm_sq == Dot(dist)
    IN  IF far_enough(quad, theta, norm_sq)
        THEN Visit(inverse_square_term(quad.total_mass, dist), "approx", path)
        ELSE IF is_internal(tree, path)
        THEN children_acceleration(tree, path, b, theta, P, M)
        ELSE IF quad.body # b
        THEN IF quad.body \notin DOMAIN M THEN Failed("IndexError")
             ELSE Visit(inverse_square_term(M[quad.body], dist), "direct", path)
        ELSE Visit(VecZero, "self", path)

----------------------------------------------------------------------------
(* direct_sum.py *)

\* a loop body without the test
pair_evaluated_always(m1, m2) == TRUE

\* whether the loop body evaluates the term of the pair: if m1 != m2
pair_evaluated(m1, m2) == m1 # m2

\* one pass of the inner loop body of acceleration for the pair (m1, m2):
\* the new value of result[m1]
direct_sum_step(result_m1, M, current_pos, m1, m2) ==
    IF pair_evaluated(m1, m2)
    THEN VecSub(result_m1,
                inverse_square_term(M[m2],
                    RatVecSub(RatVec(current_pos[m1]), RatVec(current_pos[m2]))))
    ELSE result_m1

\* the inner loop for m2 = from..n-1
RECURSIVE direct_sum_row(_, _, _, _, _)
direct_sum_row(result_m1, M, current_pos, m1, from) ==
    IF from >= Len0(M) THEN result_m1
    ELSE direct_sum_row(direct_sum_step(result_m1, M, current_pos, m1, from),
                        M, current_pos, m1, from + 1)

\* direct_sum.acceleration(masses = M, current_pos)
direct_sum_acceleration(M, current_pos) ==
    [m1 \in DOMAIN M |-> direct_sum_row(VecZero, M, current_pos, m1, 0)]

\* the difference taken the other way round: x - x.T
pairwise_diff_transposed(current_pos, col, i, k) == current_pos[i][col] - current_pos[k][col]

\* (x.T - x)[i][k] for column col of current_pos: x[k] - x[i]
pairwise_diff(current_pos, col, i, k) == current_pos[k][col] - current_pos[i][col]

\* one entry of np.float_power(factor, -1.5, where=factor != 0, out=factor):
\* where the entry is 0 it is left as it is
masked_power(factor) == IF factor # 0 THEN InvCube(RatInt(factor)) ELSE RealZero

\* row i of (d * factor) @ masses, summed from column k on
RECURSIVE matmul_row(_, _, _, _)
matmul_row(d_i, factor_i, M, k) ==
    IF k >= Len0(M) THEN RealZero
    ELSE RealAdd(RealScale(RatInt(d_i[k] * M[k]), factor_i[k]),
                 matmul_row(d_i, factor_i, M, k + 1))

----------------------------------------------------------------------------
(* barnes_hut.py: acceleration, statement by statement *)

\* the threads that may call acceleration
Threads == {"t1", "t2"}

\* np.empty(1): the globals before the first call; no body can be looked up
EmptyArr == [i \in {} |-> 0]

\* the arguments of one call
BHInputs(max_n, max_coord, max_mass, thetas) ==
    UNION {[m : [Rows(n) -> 1..max_mass],
            pos : [Rows(n) -> (0..max_coord) \X (0..max_coord)],
            theta : thetas] : n \in 1..max_n}

BHInit ==
    /\ positions = EmptyArr
    /\ masses = EmptyArr
    /\ pc = [c \in Threads |-> "idle"]
    /\ arg_m = [c \in Threads |-> EmptyArr]
    /\ arg_pos = [c \in Threads |-> EmptyArr]
    /\ arg_theta = [c \in Threads |-> ThetaDefault]
    /\ root = [c \in Threads |-> NoTree]
    /\ body_idx = [c \in Threads |-> 0]
    /\ result = [c \in Threads |-> EmptyArr]
    /\ visited = [c \in Threads |-> EmptyArr]
    /\ calls_made = [c \in Threads |-> 0]

\* a variant that binds the global on the first call only
assign_global_once(old, new) == IF old = EmptyArr THEN new ELSE old

\* the value the statement  positions = current_pos  /  masses = m  leaves
\* in the global
assign_global(old, new) == new

\* thread c calls acceleration(m, current_pos, theta) with arguments from Inputs
Call(c, Inputs, limit) ==
    /\ pc[c] \in {"idle", "returned", "raised"}
    /\ calls_made[c] < limit
    /\ \E in \in Inputs :
        /\ arg_m' = [arg_m EXCEPT ![c] = in.m]
        /\ arg_pos' = [arg_pos EXCEPT ![c] = in.pos]
        /\ arg_theta' = [arg_theta EXCEPT ![c] = in.theta]
    /\ calls_made' = [calls_made EXCEPT ![c] = @ + 1]
    /\ root' = [root EXCEPT ![c] = NoTree]
    /\ body_idx' = [body_idx EXCEPT ![c] = 0]
    /\ result' = [result EXCEPT ![c] = EmptyArr]
    /\ visited' = [visited EXCEPT ![c] = EmptyArr]
    /\ pc' = [pc EXCEPT ![c] = "set_positions"]
    /\ UNCHANGED <<positions, masses>>
    /\ UNCHANGED <<ds_vars, sv_vars, en_vars>>

\* positions = current_pos
SetPositions(c) ==
    /\ pc[c] = "set_positions"
    /\ positions' = assign_global(positions, arg_pos[c])
    /\ pc' = [pc EXCEPT ![c] = "set_masses"]
    /\ UNCHANGED <<masses, arg_m, arg_pos, arg_theta, root, body_idx, result,
                   visited, calls_made>>
    /\ UNCHANGED <<ds_vars, sv_vars, en_vars>>

\* masses = m
SetMasses(c) ==
    /\ pc[c] = "set_masses"
    /\ masses' = assign_global(masses, arg_m[c])
    /\ pc' = [pc EXCEPT ![c] = "build_root"]
    /\ UNCHANGED <<positions, arg_m, arg_pos, arg_theta, root, body_idx, result,
                   visited, calls_made>>
    /\ UNCHANGED <<ds_vars, sv_vars, en_vars>>

\* maxs ... root = Quad(root_pos[0], root_pos[1], root_size), from the argument
BuildRoot(c) ==
    /\ pc[c] = "build_root"
    /\ root' = [root EXCEPT ![c] = build_root(arg_pos[c])]
    /\ body_idx' = [body_idx EXCEPT ![c] = 0]
    /\ pc' = [pc EXCEPT ![c] = "fill"]
    /\ UNCHANGED <<positions, masses, arg_m, arg_pos, arg_theta, result, visited,
                   calls_made>>
    /\ UNCHANGED <<ds_vars, sv_vars, en_vars>>

\* one pass of  for body_idx in range(len(m)): root.add_body(body_idx)
FillStep(c) ==
    /\ pc[c] = "fill"
    /\ body_idx[c] < Len0(arg_m[c])
    /\ LET r == add_body(root[c], << >>, body_idx[c], positions, masses)
       IN  IF r.err # ""
           THEN /\ pc' = [pc EXCEPT ![c] = "raised"]
                /\ root' = [root EXCEPT ![c] = NoTree]
                /\ UNCHANGED body_idx
           ELSE /\ pc' = pc
                /\ root' = [root EXCEPT ![c] = r.tree]
                /\ body_idx' = [body_idx EXCEPT ![c] = @ + 1]
    /\ UNCHANGED <<positions, masses, arg_m, arg_pos, arg_theta, result, visited,
                   calls_made>>
    /\ UNCHANGED <<ds_vars, sv_vars, en_vars>>

\* the fill loop ends; result = np.zeros_like(current_pos)
FillDone(c) ==
    /\ pc[c] = "fill"
    /\ body_idx[c] = Len0(arg_m[c])
    /\ result' = [result EXCEPT ![c] = [i \in DOMAIN arg_pos[c] |-> VecZero]]
    /\ visited' = [visited EXCEPT ![c] = [i \in DOMAIN arg_pos[c] |-> << >>]]
    /\ body_idx' = [body_idx EXCEPT ![c] = 0]
    /\ pc' = [pc EXCEPT ![c] = "calc"]
    /\ UNCHANGED <<positions, masses, arg_m, arg_pos, arg_theta, root, calls_made>>
    /\ UNCHANGED <<ds_vars, sv_vars, en_vars>>

\* one pass of  result[body_idx] = _calculate_acceleration(root, body_idx, theta)
CalcStep(c) ==
    /\ pc[c] = "calc"
    /\ body_idx[c] < Len0(arg_m[c])
    /\ LET r == calculate_acceleration(root[c], << >>, body_idx[c], arg_theta[c],
                                       positions, masses)
       IN  IF r.err # ""
           THEN /\ pc' = [pc EXCEPT ![c] = "raised"]
                /\ root' = [root EXCEPT ![c] = NoTree]
                /\ UNCHANGED <<body_idx, result, visited>>
           ELSE /\ pc' = pc
                /\ root' = root
                /\ result' = [result EXCEPT ![c][body_idx[c]] = r.acc]
                /\ visited' = [visited EXCEPT ![c][body_idx[c]] = r.visits]
                /\ body_idx' = [body_idx EXCEPT ![c] = @ + 1]
    /\ UNCHANGED <<positions, masses, arg_m, arg_pos, arg_theta, calls_made>>
    /\ UNCHANGED <<ds_vars, sv_vars, en_vars>>

\* return result: the tree is unreachable from here on
Return(c) ==
    /\ pc[c] = "calc"
    /\ body_idx[c] = Len0(arg_m[c])
    /\ root' = [root EXCEPT ![c] = NoTree]
    /\ pc' = [pc EXCEPT ![c] = "returned"]
    /\ UNCHANGED <<positions, masses, arg_m, arg_pos, arg_theta, body_idx, result,
                   visited, calls_made>>
    /\ UNCHANGED <<ds_vars, sv_vars, en_vars>>

\* every step of a call but its start
BHStep(c) ==
    \/ SetPositions(c)
    \/ SetMasses(c)
    \/ BuildRoot(c)
    \/ FillStep(c)
    \/ FillDone(c)
    \/ CalcStep(c)
    \/ Return(c)

----------------------------------------------------------------------------
(* direct_sum.py: acceleration, one pass of the inner loop at a time, then *)
(* acceleration_vec, one array statement at a time, on the same arguments  *)

\* coordinates of the bodies handed to the two direct sums: 0..MaxCoordDS
MaxCoordDS == 2

DSIdle ==
    /\ ds_pc = "off"
    /\ ds_masses = EmptyArr
    /\ ds_pos = EmptyArr
    /\ ds_m1 = 0
    /\ ds_m2 = 0
    /\ ds_result = EmptyArr
    /\ ds_evaluated = {}
    /\ vec_dx = EmptyArr
    /\ vec_dy = EmptyArr
    /\ vec_factor = EmptyArr
    /\ vec_result = EmptyArr

\* the arguments, and result = np.zeros((len(masses), 2))
DSInit ==
    /\ \E n \in 1..MaxBodies :
        /\ ds_masses \in MassArrays(n)
        /\ ds_pos \in [Rows(n) -> (0..MaxCoordDS) \X (0..MaxCoordDS)]
        /\ ds_result = [i \in Rows(n) |-> VecZero]
    /\ ds_pc = "loop"
    /\ ds_m1 = 0
    /\ ds_m2 = 0
    /\ ds_evaluated = {}
    /\ vec_dx = EmptyArr
    /\ vec_dy = EmptyArr
    /\ vec_factor = EmptyArr
    /\ vec_result = EmptyArr

\* one pass of the body of  for m1 ...: for m2 ...
LoopIter ==
    /\ ds_pc = "loop"
    /\ ds_m1 < Len0(ds_masses)
    /\ ds_result' = [ds_result EXCEPT ![ds_m1] =
                        direct_sum_step(@, ds_masses, ds_pos, ds_m1, ds_m2)]
    /\ ds_evaluated' = IF pair_evaluated(ds_m1, ds_m2)
                       THEN ds_evaluated \cup {<<ds_m1, ds_m2>>}
                       ELSE ds_evaluated
    /\ IF ds_m2 + 1 < Len0(ds_masses)
       THEN ds_m2' = ds_m2 + 1 /\ ds_m1' = ds_m1
       ELSE ds_m2' = 0 /\ ds_m1' = ds_m1 + 1
    /\ UNCHANGED <<ds_pc, ds_masses, ds_pos, vec_dx, vec_dy, vec_factor, vec_result>>
    /\ UNCHANGED <<bh_vars, sv_vars, en_vars>>

\* return result
LoopReturn ==
    /\ ds_pc = "loop"
    /\ ds_m1 = Len0(ds_masses)
    /\ ds_pc' = "vec_dist"
    /\ UNCHANGED <<ds_masses, ds_pos, ds_m1, ds_m2, ds_result, ds_evaluated,
                   vec_dx, vec_dy, vec_factor, vec_result>>
    /\ UNCHANGED <<bh_vars, sv_vars, en_vars>>

\* dx = x.T - x; dy = y.T - y
VecDist ==
    /\ ds_pc = "vec_dist"
    /\ vec_dx' = [i \in DOMAIN ds_pos |-> [k \in DOMAIN ds_pos |-> pairwise_diff(ds_pos, 1, i, k)]]
    /\ vec_dy' = [i \in DOMAIN ds_pos |-> [k \in DOMAIN ds_pos |-> pairwise_diff(ds_pos, 2, i, k)]]
    /\ ds_pc' = "vec_factor"
    /\ UNCHANGED <<ds_masses, ds_pos, ds_m1, ds_m2, ds_result, ds_evaluated,
                   vec_factor, vec_result>>
    /\ UNCHANGED <<bh_vars, sv_vars, en_vars>>

\* factor = dx ** 2 + dy ** 2; np.float_power(factor, -1.5, where=factor != 0, out=factor)
VecFactor ==
    /\ ds_pc = "vec_factor"
    /\ vec_factor' = [i \in DOMAIN ds_pos |-> [k \in DOMAIN ds_pos |->
                          masked_power(vec_dx[i][k] * vec_dx[i][k] + vec_dy[i][k] * vec_dy[i][k])]]
    /\ ds_pc' = "vec_matmul"
    /\ UNCHANGED <<ds_masses, ds_pos, ds_m1, ds_m2, ds_result, ds_evaluated,
                   vec_dx, vec_dy, vec_result>>
    /\ UNCHANGED <<bh_vars, sv_vars, en_vars>>

\* a_x = (dx * factor) @ masses; a_y = (dy * factor) @ masses;
\* return np.vstack((a_x, a_y)).T
VecMatmul ==
    /\ ds_pc = "vec_matmul"
    /\ vec_result' = [i \in DOMAIN ds_pos |->
                         <<matmul_row(vec_dx[i], vec_factor[i], ds_masses, 0),
                           matmul_row(vec_dy[i], vec_factor[i], ds_masses, 0)>>]
    /\ ds_pc' = "done"
    /\ UNCHANGED <<ds_masses, ds_pos, ds_m1, ds_m2, ds_result, ds_evaluated,
                   vec_dx, vec_dy, vec_factor>>
    /\ UNCHANGED <<bh_vars, sv_vars, en_vars>>


----------------------------------------------------------------------------
(* utils.solver and integrators.py                                         *)
(*                                                                         *)
(* An array value is not computed: it is the number of its entry in defs,  *)
(* the table of the array expressions evaluated so far, whose operands are *)
(* entries again.  0 is the array of zeros that np.zeros leaves.           *)

\* len(b): the stages of rk8
Stages == 13

Methods == {"forward_euler", "leapfrog", "pefrl", "rk8"}

\* a coefficient c1 + c2 * xi + c3 * lbd + c4 * chi, as <<2 * c1, 2 * c2, 2 * c3, 2 * c4>>
CoefOne == <<2, 0, 0, 0>>

CoefHalf == <<1, 0, 0, 0>>

CoefXi == <<0, 2, 0, 0>>

CoefLbd == <<0, 0, 2, 0>>

CoefChi == <<0, 0, 0, 2>>

\* 0.5 - lbd
CoefHalfMinusLbd == <<1, 0, -2, 0>>

\* a variant: 1 - (chi + xi)
CoefMiddleSingle == <<2, -2, 0, -2>>

\* 1 - 2 * (chi + xi)
CoefMiddle == <<2, -4, 0, -4>>

CoefNone == <<0, 0, 0, 0>>

\* init_pos / init_vel, as copied into slot 0
ExprInit(name) == [op |-> name, c |-> CoefNone, x |-> 0, y |-> 0, s |-> 0, row |-> << >>]

\* y + c * dt * x
ExprAxpy(c, x, y) == [op |-> "axpy", c |-> c, x |-> x, y |-> y, s |-> 0, row |-> << >>]

\* acc(masses, x)
ExprAcc(x) == [op |-> "acc", c |-> CoefNone, x |-> x, y |-> 0, s |-> 0, row |-> << >>]

\* y + dt * np.sum(a[s, :] * row, axis=2), row the 13 slots of k or j
ExprStage(s, y, row) == [op |-> "stage", c |-> CoefNone, x |-> 0, y |-> y, s |-> s, row |-> row]

\* y + dt * np.sum(b * row, axis=2)
ExprFinal(y, row) == [op |-> "final", c |-> CoefNone, x |-> 0, y |-> y, s |-> 0, row |-> row]

\* a variant of the tableau with an entry above the diagonal: a[1][2] # 0
a_nonzero_upper(s) ==
    CASE s = 0 -> {}
      [] s = 1 -> {0, 2}
      [] s = 2 -> {0, 1}
      [] s = 3 -> {0, 2}
      [] s = 4 -> {0, 2, 3}
      [] s = 12 -> {0} \cup (3..10)
      [] OTHER -> {0} \cup (3..(s - 1))

\* the columns i with a[s][i] # 0 in the Butcher tableau of rk8
a_nonzero(s) ==
    CASE s = 0 -> {}
      [] s = 1 -> {0}
      [] s = 2 -> {0, 1}
      [] s = 3 -> {0, 2}
      [] s = 4 -> {0, 2, 3}
      [] s = 12 -> {0} \cup (3..10)
      [] OTHER -> {0} \cup (3..(s - 1))

\* the entries i with b[i] # 0
b_nonzero == {0} \cup (5..12)

\* a variant that compares only init_pos with masses
count_ok_pos_only(pos_shape, vel_shape, n) == pos_shape[1] = n

\* init_pos.shape[0] == init_vel.shape[0] == len(masses)
count_ok(pos_shape, vel_shape, n) == pos_shape[1] = vel_shape[1] /\ vel_shape[1] = n

\* init_pos.shape[1] == init_vel.shape[1] == 2
dims_ok(pos_shape, vel_shape) == pos_shape[2] = vel_shape[2] /\ vel_shape[2] = 2

\* a variant that evaluates the acceleration at the position just written
euler_acc_slot_next(t) == t + 1

\* forward_euler: acc(masses, pos[:, :, time_idx])
euler_acc_slot(t) == t

\* a variant that evaluates the acceleration at the position of snapshot t
leapfrog_acc_slot_current(t) == t

\* leapfrog: acc(masses, pos[:, :, time_idx + 1]), the half-drifted position
leapfrog_acc_slot(t) == t + 1

\* a variant that writes the current slot
next_slot_in_place(t) == t

\* the slot an integrator step writes: time_idx + 1
next_slot(t) == t + 1

SVIdle ==
    /\ sv_pc = "off"
    /\ sv_method = "forward_euler"
    /\ sv_n = 0
    /\ sv_pos_shape = <<0, 0>>
    /\ sv_vel_shape = <<0, 0>>
    /\ sv_time_steps = 0
    /\ sv_pos = EmptyArr
    /\ sv_vel = EmptyArr
    /\ rk_k = EmptyArr
    /\ rk_j = EmptyArr
    /\ sv_tmp = EmptyArr
    /\ time_idx = 0
    /\ stmt = 1
    /\ sub_step = 0
    /\ defs = << >>
    /\ acc_calls = 0
    /\ sv_checks = 0

\* a call  integrator(masses, init_pos, init_vel, time_steps, dt, acc_func)
SVInit ==
    /\ sv_pc = "called"
    /\ sv_method \in Methods
    /\ sv_n \in 1..MaxBodies
    /\ sv_pos_shape \in (1..MaxBodies) \X (1..MaxCols)
    /\ sv_vel_shape \in (1..MaxBodies) \X (1..MaxCols)
    /\ sv_time_steps \in 1..MaxSteps
    /\ sv_pos = EmptyArr
    /\ sv_vel = EmptyArr
    /\ rk_k = EmptyArr
    /\ rk_j = EmptyArr
    /\ sv_tmp = EmptyArr
    /\ time_idx = 0
    /\ stmt = 1
    /\ sub_step = 0
    /\ defs = << >>
    /\ acc_calls = 0
    /\ sv_checks = 0

\* wrapper: the test of the body counts
CheckCount ==
    /\ sv_pc = "called"
    /\ sv_checks' = sv_checks + 1
    /\ sv_pc' = IF count_ok(sv_pos_shape, sv_vel_shape, sv_n) THEN "check_dims" ELSE "raised"
    /\ UNCHANGED <<sv_method, sv_n, sv_pos_shape, sv_vel_shape, sv_time_steps, sv_pos,
                   sv_vel, rk_k, rk_j, sv_tmp, time_idx, stmt, sub_step, defs, acc_calls>>
    /\ UNCHANGED <<bh_vars, ds_vars, en_vars>>

\* wrapper: the test of the dimensions
CheckDims ==
    /\ sv_pc = "check_dims"
    /\ sv_checks' = sv_checks + 1
    /\ sv_pc' = IF dims_ok(sv_pos_shape, sv_vel_shape) THEN "setup" ELSE "raised"
    /\ UNCHANGED <<sv_method, sv_n, sv_pos_shape, sv_vel_shape, sv_time_steps, sv_pos,
                   sv_vel, rk_k, rk_j, sv_tmp, time_idx, stmt, sub_step, defs, acc_calls>>
    /\ UNCHANGED <<bh_vars, ds_vars, en_vars>>

PefrlLocals == {"pos1", "vel1", "pos2", "vel2", "pos3", "vel3", "pos4"}

\* wrapper: pos = np.zeros(...); vel = np.zeros(...); pos[:, :, 0] = init_pos;
\* vel[:, :, 0] = init_vel; func(masses, pos, vel, dt, acc_func) is entered
\* (rk8: k = np.zeros(...); j = np.zeros(...))
Setup ==
    /\ sv_pc = "setup"
    /\ defs' = <<ExprInit("init_pos"), ExprInit("init_vel")>>
    /\ sv_pos' = [t \in 0..(sv_time_steps - 1) |-> IF t = 0 THEN 1 ELSE 0]
    /\ sv_vel' = [t \in 0..(sv_time_steps - 1) |-> IF t = 0 THEN 2 ELSE 0]
    /\ rk_k' = IF sv_method = "rk8" THEN [i \in 0..(Stages - 1) |-> 0] ELSE EmptyArr
    /\ rk_j' = IF sv_method = "rk8" THEN [i \in 0..(Stages - 1) |-> 0] ELSE EmptyArr
    /\ time_idx' = 0
    /\ stmt' = 1
    /\ sub_step' = 0
    /\ sv_tmp' = IF sv_method = "pefrl" THEN [name \in PefrlLocals |-> 0] ELSE EmptyArr
    /\ sv_pc' = "loop"
    /\ UNCHANGED <<sv_method, sv_n, sv_pos_shape, sv_vel_shape, sv_time_steps,
                   acc_calls, sv_checks>>
    /\ UNCHANGED <<bh_vars, ds_vars, en_vars>>

InLoop(method) ==
    /\ sv_pc = "loop"
    /\ sv_method = method
    /\ time_idx < sv_time_steps - 1

\* the entry the next evaluated expression gets, and the one after it
NewId == Len(defs) + 1

NewId2 == Len(defs) + 2

SVFrame == UNCHANGED <<sv_pc, sv_method, sv_n, sv_pos_shape, sv_vel_shape,
                       sv_time_steps, sv_checks>>

\* forward_euler: the two statements of the loop body
ForwardEulerStmt ==
    /\ InLoop("forward_euler")
    /\ \/ /\ stmt = 1
          \* pos[:, :, time_idx + 1] = pos[:, :, time_idx] + dt * vel[:, :, time_idx]
          /\ defs' = Append(defs, ExprAxpy(CoefOne, sv_vel[time_idx], sv_pos[time_idx]))
          /\ sv_pos' = [sv_pos EXCEPT ![next_slot(time_idx)] = NewId]
          /\ stmt' = 2
          /\ UNCHANGED <<sv_vel, time_idx, acc_calls>>
       \/ /\ stmt = 2
          \* vel[:, :, time_idx + 1] = vel[:, :, time_idx] + dt * acc(masses, pos[:, :, time_idx])
          /\ defs' = defs \o <<ExprAcc(sv_pos[euler_acc_slot(time_idx)]),
                               ExprAxpy(CoefOne, NewId, sv_vel[time_idx])>>
          /\ acc_calls' = acc_calls + 1
          /\ sv_vel' = [sv_vel EXCEPT ![next_slot(time_idx)] = NewId2]
          /\ stmt' = 1
          /\ time_idx' = time_idx + 1
          /\ UNCHANGED sv_pos
    /\ UNCHANGED <<rk_k, rk_j, sv_tmp, sub_step>>
    /\ SVFrame
    /\ UNCHANGED <<bh_vars, ds_vars, en_vars>>

\* leapfrog: the three statements of the loop body
LeapfrogStmt ==
    /\ InLoop("leapfrog")
    /\ \/ /\ stmt = 1
          \* pos[:, :, time_idx + 1] = pos[:, :, time_idx] + 0.5 * dt * vel[:, :, time_idx]
          /\ defs' = Append(defs, ExprAxpy(CoefHalf, sv_vel[time_idx], sv_pos[time_idx]))
          /\ sv_pos' = [sv_pos EXCEPT ![next_slot(time_idx)] = NewId]
          /\ stmt' = 2
          /\ UNCHANGED <<sv_vel, time_idx, acc_calls>>
       \/ /\ stmt = 2
          \* vel[:, :, time_idx + 1] = vel[:, :, time_idx] + dt * acc(masses, pos[:, :, time_idx + 1])
          /\ defs' = defs \o <<ExprAcc(sv_pos[leapfrog_acc_slot(time_idx)]),
                               ExprAxpy(CoefOne, NewId, sv_vel[time_idx])>>
          /\ acc_calls' = acc_calls + 1
          /\ sv_vel' = [sv_vel EXCEPT ![next_slot(time_idx)] = NewId2]
          /\ stmt' = 3
          /\ UNCHANGED <<sv_pos, time_idx>>
       \/ /\ stmt = 3
          \* pos[:, :, time_idx + 1] = pos[:, :, time_idx + 1] + 0.5 * dt * vel[:, :, time_idx + 1]
          /\ defs' = Append(defs, ExprAxpy(CoefHalf, sv_vel[time_idx + 1], sv_pos[time_idx + 1]))
          /\ sv_pos' = [sv_pos EXCEPT ![next_slot(time_idx)] = NewId]
          /\ stmt' = 1
          /\ time_idx' = time_idx + 1
          /\ UNCHANGED <<sv_vel, acc_calls>>
    /\ UNCHANGED <<rk_k, rk_j, sv_tmp, sub_step>>
    /\ SVFrame
    /\ UNCHANGED <<bh_vars, ds_vars, en_vars>>

\* a drift  name = p + c * dt * v  into a local of pefrl
PefrlDrift(name, c, p, v) ==
    /\ defs' = Append(defs, ExprAxpy(c, v, p))
    /\ sv_tmp' = [sv_tmp EXCEPT ![name] = NewId]
    /\ stmt' = stmt + 1
    /\ UNCHANGED <<sv_pos, sv_vel, time_idx, acc_calls>>

\* a kick  name = v + c * dt * acc(masses, p)  into a local of pefrl
PefrlKick(name, c, v, p) ==
    /\ defs' = defs \o <<ExprAcc(p), ExprAxpy(c, NewId, v)>>
    /\ acc_calls' = acc_calls + 1
    /\ sv_tmp' = [sv_tmp EXCEPT ![name] = NewId2]
    /\ stmt' = stmt + 1
    /\ UNCHANGED <<sv_pos, sv_vel, time_idx>>

\* pefrl: the nine statements of the loop body
PefrlStmt ==
    /\ InLoop("pefrl")
    /\ \/ stmt = 1 /\ PefrlDrift("pos1", CoefXi, sv_pos[time_idx], sv_vel[time_idx])
       \/ stmt = 2 /\ PefrlKick("vel1", CoefHalfMinusLbd, sv_vel[time_idx], sv_tmp["pos1"])
       \/ stmt = 3 /\ PefrlDrift("pos2", CoefChi, sv_tmp["pos1"], sv_tmp["vel1"])
       \/ stmt = 4 /\ PefrlKick("vel2", CoefLbd, sv_tmp["vel1"], sv_tmp["pos2"])
       \/ stmt = 5 /\ PefrlDrift("pos3", CoefMiddle, sv_tmp["pos2"], sv_tmp["vel2"])
       \/ stmt = 6 /\ PefrlKick("vel3", CoefLbd, sv_tmp["vel2"], sv_tmp["pos3"])
       \/ stmt = 7 /\ PefrlDrift("pos4", CoefChi, sv_tmp["pos3"], sv_tmp["vel3"])
       \/ /\ stmt = 8
          \* vel[:, :, i + 1] = vel3 + (0.5 - lbd) * dt * acc(masses, pos4)
          /\ defs' = defs \o <<ExprAcc(sv_tmp["pos4"]),
                               ExprAxpy(CoefHalfMinusLbd, NewId, sv_tmp["vel3"])>>
          /\ acc_calls' = acc_calls + 1
          /\ sv_vel' = [sv_vel EXCEPT ![next_slot(time_idx)] = NewId2]
          /\ stmt' = 9
          /\ UNCHANGED <<sv_pos, sv_tmp, time_idx>>
       \/ /\ stmt = 9
          \* pos[:, :, i + 1] = pos4 + xi * dt * vel[:, :, i + 1]
          /\ defs' = Append(defs, ExprAxpy(CoefXi, sv_vel[time_idx + 1], sv_tmp["pos4"]))
          /\ sv_pos' = [sv_pos EXCEPT ![next_slot(time_idx)] = NewId]
          /\ stmt' = 1
          /\ time_idx' = time_idx + 1
          /\ UNCHANGED <<sv_vel, sv_tmp, acc_calls>>
    /\ UNCHANGED <<rk_k, rk_j, sub_step>>
    /\ SVFrame
    /\ UNCHANGED <<bh_vars, ds_vars, en_vars>>

\* the 13 slots of a stage buffer, as the operands of a sum over axis 2
RowOf(buf) == [i \in 1..Stages |-> buf[i - 1]]

\* rk8: the two statements of a sub-step, then the two updates of the step
Rk8Stmt ==
    /\ InLoop("rk8")
    /\ \/ /\ stmt = 1
          \* k[:, :, sub_step] = vel[:, :, time_idx] + dt * np.sum(a[sub_step, :] * j, axis=2)
          /\ defs' = Append(defs, ExprStage(sub_step, sv_vel[time_idx], RowOf(rk_j)))
          /\ rk_k' = [rk_k EXCEPT ![sub_step] = NewId]
          /\ stmt' = 2
          /\ UNCHANGED <<rk_j, sv_pos, sv_vel, time_idx, sub_step, acc_calls>>
       \/ /\ stmt = 2
          \* j[:, :, sub_step] = acc(masses, pos[:, :, time_idx] + dt * np.sum(a[sub_step, :] * k, axis=2))
          /\ defs' = defs \o <<ExprStage(sub_step, sv_pos[time_idx], RowOf(rk_k)),
                               ExprAcc(NewId)>>
          /\ acc_calls' = acc_calls + 1
          /\ rk_j' = [rk_j EXCEPT ![sub_step] = NewId2]
          /\ IF sub_step + 1 < Stages
             THEN stmt' = 1 /\ sub_step' = sub_step + 1
             ELSE stmt' = 3 /\ sub_step' = 0
          /\ UNCHANGED <<rk_k, sv_pos, sv_vel, time_idx>>
       \/ /\ stmt = 3
          \* pos[:, :, time_idx + 1] = pos[:, :, time_idx] + dt * np.sum(b * k, axis=2)
          /\ defs' = Append(defs, ExprFinal(sv_pos[time_idx], RowOf(rk_k)))
          /\ sv_pos' = [sv_pos EXCEPT ![next_slot(time_idx)] = NewId]
          /\ stmt' = 4
          /\ UNCHANGED <<rk_k, rk_j, sv_vel, time_idx, sub_step, acc_calls>>
       \/ /\ stmt = 4
          \* vel[:, :, time_idx + 1] = vel[:, :, time_idx] + dt * np.sum(b * j, axis=2)
          /\ defs' = Append(defs, ExprFinal(sv_vel[time_idx], RowOf(rk_j)))
          /\ sv_vel' = [sv_vel EXCEPT ![next_slot(time_idx)] = NewId]
          /\ stmt' = 1
          /\ time_idx' = time_idx + 1
          /\ UNCHANGED <<rk_k, rk_j, sv_pos, sub_step, acc_calls>>
    /\ UNCHANGED sv_tmp
    /\ SVFrame
    /\ UNCHANGED <<bh_vars, ds_vars, en_vars>>

\* the loop ends: return pos, vel
SolverReturn ==
    /\ sv_pc = "loop"
    /\ time_idx >= sv_time_steps - 1
    /\ sv_pc' = "returned"
    /\ UNCHANGED <<sv_method, sv_n, sv_pos_shape, sv_vel_shape, sv_time_steps, sv_pos,
                   sv_vel, rk_k, rk_j, sv_tmp, time_idx, stmt, sub_step, defs, acc_calls,
                   sv_checks>>
    /\ UNCHANGED <<bh_vars, ds_vars, en_vars>>

----------------------------------------------------------------------------
(* utils.py: energy diagnostics                                            *)

RECURSIVE IntSum(_, _)
IntSum(f, S) ==
    IF S = {} THEN 0
    ELSE LET i == CHOOSE i \in S : TRUE IN f[i] + IntSum(f, S \ {i})

RECURSIVE RealSum(_, _)
RealSum(f, S) ==
    IF S = {} THEN RealZero
    ELSE LET i == CHOOSE i \in S : TRUE IN RealAdd(f[i], RealSum(f, S \ {i}))

\* kin_energy = 0.5 * np.sum(masses * np.sum(vel[:, :, time_idx] ** 2, axis=1))
kinetic_energy(M, V) ==
    LET speed2 == [i \in DOMAIN M |-> V[i][1] * V[i][1] + V[i][2] * V[i][2]]
    IN  RealRat(Rat(IntSum([i \in DOMAIN M |-> M[i] * speed2[i]], DOMAIN M), 2))

\* a variant without the mask: 1 / 0 is not finite
masked_inverse_unmasked(norm2) ==
    IF norm2 # 0 THEN InvSqrt(RatInt(norm2)) ELSE NaN

\* norm = np.sqrt(...); inv = np.zeros_like(norm);
\* np.divide(1, norm, where=norm != 0, out=inv), for one entry, norm2 = norm ** 2
masked_inverse(norm2) ==
    IF norm2 # 0 THEN InvSqrt(RatInt(norm2)) ELSE RealZero

\* the potential energy of _get_energy_at_time, from the positions P of one snapshot
potential_energy(M, P) ==
    LET N == DOMAIN M
        \* dx = x.T - x; dy = y.T - y
        dx == [i \in N |-> [k \in N |-> P[k][1] - P[i][1]]]
        dy == [i \in N |-> [k \in N |-> P[k][2] - P[i][2]]]
        inv == [i \in N |-> [k \in N |->
                   masked_inverse(dx[i][k] * dx[i][k] + dy[i][k] * dy[i][k])]]
        \* energy_per_body = np.transpose(inv * masses) * masses
        scaled == [i \in N |-> [k \in N |-> RealScale(RatInt(M[k]), inv[i][k])]]
        energy_per_body == [i \in N |-> [k \in N |-> RealScale(RatInt(M[k]), scaled[k][i])]]
        \* pot_energy = -0.5 * energy_per_body.sum()
        rows == [i \in N |-> RealSum(energy_per_body[i], N)]
    IN  RealScale(<<-1, 2>>, RealSum(rows, N))

Workers == {"w1", "w2"}

\* a variant that leaves out the last time step
task_indices_short(T) == 0..(T - 2)

\* range(pos.shape[2])
task_indices(T) == 0..(T - 1)

CoordsEN == 0..MaxCoordEN

PointsEN == CoordsEN \X CoordsEN

\* the trajectories the diagnostics are run on: body i starts at p0[i] with
\* velocity v0[i], keeps its direction and gains one unit of x-velocity a step
SampleTrajectories(n, T) ==
    {[pos |-> [t \in 0..(T - 1) |-> [i \in Rows(n) |->
                  <<p0[i][1] + t * v0[i][1], p0[i][2] + t * v0[i][2]>>]],
      vel |-> [t \in 0..(T - 1) |-> [i \in Rows(n) |->
                  <<v0[i][1] + t, v0[i][2]>>]]] :
        p0 \in [Rows(n) -> PointsEN], v0 \in [Rows(n) -> PointsEN]}

ENIdle ==
    /\ en_pc = "off"
    /\ en_masses = EmptyArr
    /\ en_pos = EmptyArr
    /\ en_vel = EmptyArr
    /\ task_state = EmptyArr
    /\ w_step = [w \in Workers |-> "idle"]
    /\ w_time_idx = [w \in Workers |-> 0]
    /\ w_kin_energy = [w \in Workers |-> RealZero]
    /\ w_pot_energy = [w \in Workers |-> RealZero]
    /\ map_result = EmptyArr
    /\ en_finished = << >>
    /\ en_evals = EmptyArr
    /\ en_out = EmptyArr

\* a call  calculate_energy(masses, pos, vel)
ENInit ==
    /\ en_pc = "called"
    /\ \E n \in 1..MaxBodiesEN, T \in 1..MaxSteps :
          /\ en_masses \in [Rows(n) -> 1..MaxMass]
          /\ \E tr \in SampleTrajectories(n, T) : en_pos = tr.pos /\ en_vel = tr.vel
    /\ task_state = EmptyArr
    /\ w_step = [w \in Workers |-> "idle"]
    /\ w_time_idx = [w \in Workers |-> 0]
    /\ w_kin_energy = [w \in Workers |-> RealZero]
    /\ w_pot_energy = [w \in Workers |-> RealZero]
    /\ map_result = EmptyArr
    /\ en_finished = << >>
    /\ en_evals = EmptyArr
    /\ en_out = EmptyArr

\* with Pool() as pool: pool.map(partial(_get_energy_at_time, masses, pos, vel),
\* range(pos.shape[2])) hands the time indices to the pool
MapSubmit ==
    /\ en_pc = "called"
    /\ en_pc' = "map"
    /\ task_state' = [t \in task_indices(Len0(en_pos)) |-> "queued"]
    /\ en_evals' = [t \in task_indices(Len0(en_pos)) |-> 0]
    /\ UNCHANGED <<en_masses, en_pos, en_vel, w_step, w_time_idx, w_kin_energy,
                   w_pot_energy, map_result, en_finished, en_out>>
    /\ UNCHANGED <<bh_vars, ds_vars, sv_vars>>

\* an idle worker takes a queued time index and enters _get_energy_at_time
WorkerTake(w, t) ==
    /\ en_pc = "map"
    /\ w_step[w] = "idle"
    /\ t \in DOMAIN task_state
    /\ task_state[t] = "queued"
    /\ task_state' = [task_state EXCEPT ![t] = "running"]
    /\ w_step' = [w_step EXCEPT ![w] = "kinetic"]
    /\ w_time_idx' = [w_time_idx EXCEPT ![w] = t]
    /\ en_evals' = [en_evals EXCEPT ![t] = @ + 1]
    /\ UNCHANGED <<en_pc, en_masses, en_pos, en_vel, w_kin_energy, w_pot_energy,
                   map_result, en_finished, en_out>>
    /\ UNCHANGED <<bh_vars, ds_vars, sv_vars>>

\* _get_energy_at_time: the kinetic energy
WorkerKinetic(w) ==
    /\ w_step[w] = "kinetic"
    /\ w_kin_energy' = [w_kin_energy EXCEPT
                           ![w] = kinetic_energy(en_masses, en_vel[w_time_idx[w]])]
    /\ w_step' = [w_step EXCEPT ![w] = "potential"]
    /\ UNCHANGED <<en_pc, en_masses, en_pos, en_vel, task_state, w_time_idx,
                   w_pot_energy, map_result, en_finished, en_evals, en_out>>
    /\ UNCHANGED <<bh_vars, ds_vars, sv_vars>>

\* _get_energy_at_time: the potential energy
WorkerPotential(w) ==
    /\ w_step[w] = "potential"
    /\ w_pot_energy' = [w_pot_energy EXCEPT
                           ![w] = potential_energy(en_masses, en_pos[w_time_idx[w]])]
    /\ w_step' = [w_step EXCEPT ![w] = "return"]
    /\ UNCHANGED <<en_pc, en_masses, en_pos, en_vel, task_state, w_time_idx,
                   w_kin_energy, map_result, en_finished, en_evals, en_out>>
    /\ UNCHANGED <<bh_vars, ds_vars, sv_vars>>

\* return kin_energy, pot_energy: the pool stores the pair under the index of
\* its task
WorkerReturn(w) ==
    /\ w_step[w] = "return"
    /\ map_result' = [t \in (DOMAIN map_result) \cup {w_time_idx[w]} |->
                         IF t = w_time_idx[w]
                         THEN <<w_kin_energy[w], w_pot_energy[w]>>
                         ELSE map_result[t]]
    /\ en_finished' = Append(en_finished, w_time_idx[w])
    /\ task_state' = [task_state EXCEPT ![w_time_idx[w]] = "done"]
    /\ w_step' = [w_step EXCEPT ![w] = "idle"]
    /\ UNCHANGED <<en_pc, en_masses, en_pos, en_vel, w_time_idx, w_kin_energy,
                   w_pot_energy, en_evals, en_out>>
    /\ UNCHANGED <<bh_vars, ds_vars, sv_vars>>

\* pool.map returns once every task is done; result = np.array(result);
\* kin_energy = result[:, 0]; pot_energy = result[:, 1];
\* return kin_energy, pot_energy, kin_energy + pot_energy
Gather ==
    /\ en_pc = "map"
    /\ \A t \in DOMAIN task_state : task_state[t] = "done"
    /\ en_out' = [kin_energy |-> [t \in DOMAIN map_result |-> map_result[t][1]],
                  pot_energy |-> [t \in DOMAIN map_result |-> map_result[t][2]],
                  tot_energy |-> [t \in DOMAIN map_result |->
                                     RealAdd(map_result[t][1], map_result[t][2])]]
    /\ en_pc' = "returned"
    /\ UNCHANGED <<en_masses, en_pos, en_vel, task_state, w_step, w_time_idx,
                   w_kin_energy, w_pot_energy, map_result, en_finished, en_evals>>
    /\ UNCHANGED <<bh_vars, ds_vars, sv_vars>>

----------------------------------------------------------------------------
(* Specifications *)

\* the arguments of the calls of SpecBH
InputsBH == BHInputs(MaxBodies, MaxCoord, MaxMass, {ThetaZero, ThetaDefault})

NextBH ==
    \/ Call("t1", InputsBH, 1)
    \/ SetPositions("t1")
    \/ SetMasses("t1")
    \/ BuildRoot("t1")
    \/ FillStep("t1")
    \/ FillDone("t1")
    \/ CalcStep("t1")
    \/ Return("t1")

\* SpecBH: one call of barnes_hut.acceleration, for every input in the bounds
InitBH == BHInit /\ DSIdle /\ SVIdle /\ ENIdle

SpecBH == InitBH /\ [][NextBH]_vars

\* SpecSolver: one call of an integrator through the wrapper of utils.solver,
\* for every shape of the arguments in the bounds
NextSolver ==
    \/ CheckCount
    \/ CheckDims
    \/ Setup
    \/ ForwardEulerStmt
    \/ LeapfrogStmt
    \/ PefrlStmt
    \/ Rk8Stmt
    \/ SolverReturn

InitSolver == BHInit /\ DSIdle /\ SVInit /\ ENIdle

SpecSolver == InitSolver /\ [][NextSolver]_vars

\* SpecEnergy: one call of calculate_energy on a pool of two workers
NextEnergy ==
    \/ MapSubmit
    \/ \E w \in Workers, t \in 0..(MaxSteps - 1) : WorkerTake(w, t)
    \/ \E w \in Workers : WorkerKinetic(w)
    \/ \E w \in Workers : WorkerPotential(w)
    \/ \E w \in Workers : WorkerReturn(w)
    \/ Gather

InitEnergy == BHInit /\ DSIdle /\ SVIdle /\ ENInit

SpecEnergy == InitEnergy /\ [][NextEnergy]_vars

InputsSeq == BHInputs(MaxBodiesRun, MaxCoordRun, MaxMass, {ThetaDefault})

InputsConc == BHInputs(MaxBodiesRun, MaxCoordRun, MaxMassConc, {ThetaDefault})

\* SpecConc: two threads call barnes_hut.acceleration once each; their
\* statements interleave
NextConc ==
    \E c \in Threads :
        \/ Call(c, InputsConc, 1)
        \/ BHStep(c)

InitConc == BHInit /\ DSIdle /\ SVIdle /\ ENIdle

SpecConc == InitConc /\ [][NextConc]_vars

\* SpecSeq: one thread calls barnes_hut.acceleration MaxCalls times, one call
\* after the other
NextSeq ==
    \/ Call("t1", InputsSeq, MaxCalls)
    \/ BHStep("t1")

InitSeq == BHInit /\ DSIdle /\ SVIdle /\ ENIdle

SpecSeq == InitSeq /\ [][NextSeq]_vars

\* SpecStrip: one call of barnes_hut.acceleration with the default theta for
\* bodies on a strip longer than the square of SpecBH
InputsStrip ==
    UNION {[m : [Rows(n) -> 1..MaxMass],
            pos : [Rows(n) -> (0..MaxStripX) \X (0..MaxStripY)],
            theta : {ThetaDefault}] : n \in 1..MaxBodies}

NextStrip ==
    \/ Call("t1", InputsStrip, 1)
    \/ BHStep("t1")

InitStrip == BHInit /\ DSIdle /\ SVIdle /\ ENIdle

SpecStrip == InitStrip /\ [][NextStrip]_vars

\* SpecDS: direct_sum.acceleration, then acceleration_vec, for every input in the bounds
NextDS == LoopIter \/ LoopReturn \/ VecDist \/ VecFactor \/ VecMatmul

InitDS == BHInit /\ DSInit /\ SVIdle /\ ENIdle

SpecDS == InitDS /\ [][NextDS]_vars

\* SpecFrame: one call of each of the three acceleration functions, the
\* statements of barnes_hut.acceleration interleaved with those of the two
\* direct sums, each on arguments of its own
InputsFrame == BHInputs(MaxBodiesRun, MaxCoordRun, MaxMass, {ThetaDefault})

DSInitFrame ==
    /\ DSInit
    /\ Len0(ds_masses) <= MaxBodiesRun
    /\ \A i \in DOMAIN ds_pos : ds_pos[i] \in (0..MaxCoordRun) \X (0..MaxCoordRun)

NextFrame ==
    \/ Call("t1", InputsFrame, 1)
    \/ BHStep("t1")
    \/ NextDS

InitFrame == BHInit /\ DSInitFrame /\ SVIdle /\ ENIdle

SpecFrame == InitFrame /\ [][NextFrame]_vars

----------------------------------------------------------------------------
(* Reference quantities for the claims about the tree *)

IsPrefix(path, q) == Len(path) <= Len(q) /\ SubSeq(q, 1, Len(path)) = path

\* the bodies held by the external quads at or below path
SubtreeBodies(tree, path) ==
    {tree[q].body : q \in {r \in DOMAIN tree : IsPrefix(path, r) /\ tree[r].body # NoBody}}

RECURSIVE SumOver(_, _)
SumOver(S, f) ==
    IF S = {} THEN 0
    ELSE LET i == CHOOSE x \in S : TRUE IN f[i] + SumOver(S \ {i}, f)

\* sum(mass_i * pos_i) / sum(mass_i) over the bodies B (B # {})
Centroid(B, m, pos) ==
    [k \in 1..2 |-> Rat(SumOver(B, [i \in B |-> m[i] * pos[i][k]]), SumOver(B, m))]

Running(c) == pc[c] \in {"fill", "calc"}

\* C3: after each completed insertion every quad of the tree has total_mass
\* equal to the sum of the masses of the bodies in its subtree and
\* center_of_mass equal to their mass-weighted centroid; the bodies below the
\* root are exactly the bodies inserted so far, so that with all bodies
\* inserted the root holds the sum of all input masses and
\* sum(mass_i * pos_i) / sum(mass_i), whatever the insertion order
C3_TreeAggregates ==
    \A c \in Threads : Running(c) =>
        /\ SubtreeBodies(root[c], << >>) =
               (IF pc[c] = "fill" THEN Rows(body_idx[c]) ELSE DOMAIN arg_m[c])
        /\ \A path \in DOMAIN root[c] :
              LET B == SubtreeBodies(root[c], path)
                  quad == root[c][path]
              IN  B # {} =>
                    /\ quad.total_mass = SumOver(B, arg_m[c])
                    /\ quad.center_of_mass = Centroid(B, arg_m[c], arg_pos[c])

\* a tree of three bodies of different masses, two levels deep, all inserted,
\* whose root centroid is not a grid point
C3_Witness ==
    /\ pc["t1"] = "calc"
    /\ Len0(arg_m["t1"]) = 3
    /\ arg_m["t1"][0] # arg_m["t1"][1]
    /\ \E path \in DOMAIN root["t1"] : Len(path) >= 2
    /\ root["t1"][<< >>].center_of_mass[1][2] # 1
    /\ root["t1"][<< >>].total_mass = arg_m["t1"][0] + arg_m["t1"][1] + arg_m["t1"][2]

----------------------------------------------------------------------------
(* Claims about the force models *)

IsNaN(v) == v[1] = NaN \/ v[2] = NaN

\* the kinds of the quads that contributed to body i, and the bodies of the
\* external quads among them, in the order of the traversal
VisitKinds(c, i) == {visited[c][i][k][1] : k \in DOMAIN visited[c][i]}

VisitedBodies(c, i) ==
    [k \in DOMAIN visited[c][i] |-> root[c][visited[c][i][k][2]].body]

\* C4: with theta = 0 and n <= 3 bodies at pairwise distinct positions,
\* barnes_hut.acceleration returns, and returns for every body the
\* acceleration of direct_sum.acceleration; no quad is taken as a point mass
C4_ThetaZeroIsDirectSum ==
    \A c \in Threads :
        (/\ pc[c] # "idle"
         /\ arg_theta[c] = ThetaZero
         /\ Len0(arg_m[c]) <= 3
         /\ Distinct(arg_pos[c]))
        => /\ pc[c] # "raised"
           /\ pc[c] = "calc" =>
                 \A i \in Rows(body_idx[c]) : "approx" \notin VisitKinds(c, i)
           /\ pc[c] = "returned" =>
                 result[c] = direct_sum_acceleration(arg_m[c], arg_pos[c])

LoopReturned == ds_pc \in {"vec_dist", "vec_factor", "vec_matmul", "done"}

\* C5: for every configuration of n masses and n positions the double loop
\* and the pairwise matrix return the same acceleration for every body
C5_LoopEqualsVec ==
    ds_pc = "done" =>
        \A i \in DOMAIN ds_masses : ~IsNaN(ds_result[i]) /\ ds_result[i] = vec_result[i]

\* where the two differ, two bodies coincide
LoopDiffersOnlyOnCoincidence ==
    (ds_pc = "done" /\ Distinct(ds_pos)) =>
        \A i \in DOMAIN ds_masses : ~IsNaN(ds_result[i]) /\ ds_result[i] = vec_result[i]

\* sum over the bodies j of S of  mass[j] * (pos[j] - pos[i]) / |pos[j] - pos[i]|^3
RECURSIVE PairwiseSum(_, _, _, _)
PairwiseSum(S, i, m, pos) ==
    IF S = {} THEN VecZero
    ELSE LET j == CHOOSE x \in S : TRUE
         IN  VecAdd(inverse_square_term(m[j], RatVecSub(RatVec(pos[j]), RatVec(pos[i]))),
                    PairwiseSum(S \ {j}, i, m, pos))

\* C6: direct_sum.acceleration never evaluates the term of a pair i == j;
\* when it returns it has evaluated every ordered pair i # j, and for
\* pairwise distinct positions result[i] is the sum over j # i of
\* mass[j] * (pos[j] - pos[i]) / |pos[j] - pos[i]|^3; for n = 1 the result is
\* the zero vector (no 0 ** -1.5 was computed)
C6_DirectSum ==
    /\ \A pr \in ds_evaluated : pr[1] # pr[2]
    /\ LoopReturned =>
          /\ ds_evaluated = {pr \in (DOMAIN ds_masses) \X (DOMAIN ds_masses) : pr[1] # pr[2]}
          /\ Distinct(ds_pos) =>
                \A i \in DOMAIN ds_masses :
                    /\ ~IsNaN(ds_result[i])
                    /\ ds_result[i] = PairwiseSum((DOMAIN ds_masses) \ {i}, i, ds_masses, ds_pos)
          /\ Len0(ds_masses) = 1 => ds_result[0] = VecZero

\* the loop has returned for three bodies at distinct places, six terms
\* evaluated, with a non-zero acceleration of body 0
C6_Witness ==
    /\ LoopReturned
    /\ Len0(ds_masses) = 3
    /\ Distinct(ds_pos)
    /\ Cardinality(ds_evaluated) = 6
    /\ ds_result[0] # VecZero

----------------------------------------------------------------------------
(* Claims about the integrator framework                                   *)

\* the initial conditions name as many bodies as masses, in two columns
ValidInitialConditions ==
    /\ sv_pos_shape[1] = sv_n
    /\ sv_vel_shape[1] = sv_n
    /\ sv_pos_shape[2] = 2
    /\ sv_vel_shape[2] = 2

\* C1: a call whose init_pos or init_vel has a body count other than
\* len(masses), or a column count other than 2, is rejected before any work:
\* it never reaches the set-up or the loop, allocates no buffer, never calls
\* the acceleration function and never returns; the two tests run once per
\* call and not again in the loop; a valid call is never rejected.
C1_ValidationBeforeWork ==
    /\ ~ValidInitialConditions =>
          /\ sv_pc \in {"called", "check_dims", "raised"}
          /\ acc_calls = 0
          /\ sv_pos = EmptyArr /\ sv_vel = EmptyArr
          /\ defs = << >>
    /\ sv_pc = "check_dims" => sv_pos_shape[1] = sv_n /\ sv_vel_shape[1] = sv_n
    /\ sv_pc = "raised" => ~ValidInitialConditions /\ acc_calls = 0 /\ time_idx = 0
    /\ sv_pc \in {"setup", "loop", "returned"} => ValidInitialConditions /\ sv_checks = 2
    /\ sv_checks <= 2

\* a call with the right body counts and three velocity columns was rejected
\* by the second test
C1_Witness ==
    /\ sv_pc = "raised"
    /\ sv_checks = 2
    /\ sv_pos_shape[2] = 2
    /\ sv_vel_shape[2] = 3

\* the operands an evaluated expression reads (0, an untouched np.zeros
\* array, and the entries of k or j under a zero tableau coefficient left out)
Operands(d) ==
    (CASE d.op = "axpy" -> {d.x, d.y}
       [] d.op = "acc" -> {d.x}
       [] d.op = "stage" -> {d.y} \cup {d.row[i + 1] : i \in a_nonzero(d.s)}
       [] d.op = "final" -> {d.y} \cup {d.row[i + 1] : i \in b_nonzero}
       [] OTHER -> {}) \ {0}

\* the expressions reached from the set ids through operands, not looking
\* into the expressions of stop; operands precede their expression in defs
RECURSIVE Reach(_, _, _)
Reach(ids, stop, i) ==
    IF i = 0 THEN ids
    ELSE IF i \in ids /\ i \notin stop
         THEN Reach(ids \cup Operands(defs[i]), stop, i - 1)
         ELSE Reach(ids, stop, i - 1)

Snapshot(t) == {sv_pos[t], sv_vel[t]}

\* the values snapshot t + 1 was computed from: snapshot t, or an input
Sources(t) ==
    LET stop == Snapshot(t)
        seen == Reach(Snapshot(t + 1), stop, Len(defs))
    IN  {i \in seen : i \in stop \/ defs[i].op \in {"init_pos", "init_vel"}}

\* the slots of the buffers whose step has finished
Finished == 0..time_idx

C2_Frame ==
    sv_pc \in {"loop", "returned"} =>
        /\ DOMAIN sv_pos = 0..(sv_time_steps - 1)
        /\ DOMAIN sv_vel = 0..(sv_time_steps - 1)
        /\ sv_pos[0] = 1 /\ defs[1].op = "init_pos"
        /\ sv_vel[0] = 2 /\ defs[2].op = "init_vel"
        /\ \A t \in Finished : sv_pos[t] # 0 /\ sv_vel[t] # 0
        /\ \A t \in DOMAIN sv_pos : t > time_idx + 1 => sv_pos[t] = 0 /\ sv_vel[t] = 0
        /\ \A t \in 0..(time_idx - 1) : Sources(t) = Snapshot(t)
        /\ sv_pc = "returned" => time_idx = sv_time_steps - 1
        /\ sv_time_steps = 1 => acc_calls = 0

C2_Step ==
    sv_pc = "loop" =>
        /\ time_idx' \in {time_idx, time_idx + 1}
        /\ \A t \in Finished : sv_pos'[t] = sv_pos[t] /\ sv_vel'[t] = sv_vel[t]

\* C2: for a valid call with T >= 1 steps the buffers hold T snapshots;
\* snapshot 0 is the initial conditions and is never overwritten; the
\* snapshots are written in increasing order of time, snapshot t + 1 computed
\* from snapshot t only; the snapshots up to the last finished step are not
\* modified by a later step; with T = 1 the acceleration function is not called.
C2_TrajectoryBuffer == [](C2_Frame) /\ [][C2_Step]_vars

\* rk8 returned three snapshots: the second step ran on k and j holding the
\* stages of the first
C2_Witness ==
    /\ sv_pc = "returned"
    /\ sv_method = "rk8"
    /\ sv_time_steps = 3
    /\ acc_calls = 2 * Stages

----------------------------------------------------------------------------
(* Claims about the energy diagnostics                                     *)

\* sum over bodies of 0.5 * mass * |vel|^2
RefKinetic(M, V) ==
    RealSum([i \in DOMAIN M |->
                RealRat(Rat(M[i] * (V[i][1] * V[i][1] + V[i][2] * V[i][2]), 2))],
            DOMAIN M)

Dist2(P, i, k) ==
    (P[i][1] - P[k][1]) * (P[i][1] - P[k][1]) + (P[i][2] - P[k][2]) * (P[i][2] - P[k][2])

\* mass[i] * mass[k] / distance(i, k), zero for a pair at zero distance
PairEnergy(M, P, pair) ==
    LET i == pair[1]
        k == pair[2]
    IN  IF Dist2(P, i, k) = 0 THEN RealZero
        ELSE RealScale(RatInt(M[i] * M[k]), InvSqrt(RatInt(Dist2(P, i, k))))

\* minus the sum over the unordered pairs, each counted once
RefPotentialUnordered(M, P) ==
    LET pairs == {pair \in (DOMAIN M) \X (DOMAIN M) : pair[1] < pair[2]}
    IN  RealScale(<<-1, 1>>, RealSum([pair \in pairs |-> PairEnergy(M, P, pair)], pairs))

\* -0.5 times the sum over the ordered pairs (i, j), i # j
RefPotentialOrdered(M, P) ==
    LET pairs == {pair \in (DOMAIN M) \X (DOMAIN M) : pair[1] # pair[2]}
    IN  RealScale(<<-1, 2>>, RealSum([pair \in pairs |-> PairEnergy(M, P, pair)], pairs))

\* C7: for one snapshot _get_energy_at_time returns the kinetic energy
\* sum 0.5 * mass * |vel|^2 and the potential energy -0.5 * sum over ordered
\* pairs i # j of mass[i] * mass[j] / distance, which is minus the sum over
\* unordered pairs; a pair at zero distance contributes zero, and the result
\* is finite
C7_EnergyAtTime ==
    \A w \in Workers :
        w_step[w] = "return" =>
            LET V == en_vel[w_time_idx[w]]
                P == en_pos[w_time_idx[w]]
            IN  /\ w_kin_energy[w] = RefKinetic(en_masses, V)
                /\ w_pot_energy[w] = RefPotentialOrdered(en_masses, P)
                /\ w_pot_energy[w] = RefPotentialUnordered(en_masses, P)
                /\ w_kin_energy[w] # NaN
                /\ w_pot_energy[w] # NaN

\* a worker has evaluated a snapshot of two moving bodies at the same place:
\* the potential energy is zero, the kinetic energy is not
C7_Witness ==
    \E w \in Workers :
        /\ w_step[w] = "return"
        /\ Len0(en_masses) = 2
        /\ en_pos[w_time_idx[w]][0] = en_pos[w_time_idx[w]][1]
        /\ w_pot_energy[w] = RealZero
        /\ w_kin_energy[w] # RealZero

C8_Series ==
    /\ en_pc \in {"map", "returned"} =>
          \A t \in DOMAIN en_evals : en_evals[t] <= 1
    /\ en_pc = "returned" =>
          /\ DOMAIN en_out.kin_energy = 0..(Len0(en_pos) - 1)
          /\ DOMAIN en_out.pot_energy = 0..(Len0(en_pos) - 1)
          /\ DOMAIN en_out.tot_energy = 0..(Len0(en_pos) - 1)
          /\ \A t \in 0..(Len0(en_pos) - 1) :
                /\ en_evals[t] = 1
                /\ en_out.kin_energy[t] = RefKinetic(en_masses, en_vel[t])
                /\ en_out.pot_energy[t] = RefPotentialUnordered(en_masses, en_pos[t])
                /\ en_out.tot_energy[t] =
                       RealAdd(en_out.kin_energy[t], en_out.pot_energy[t])

C8_TrajectoryKept ==
    /\ en_masses' = en_masses
    /\ en_pos' = en_pos
    /\ en_vel' = en_vel

\* C8: calculate_energy returns three series of length T; in whatever order
\* the workers run and finish, entry t of the kinetic and of the potential
\* series is the energy of snapshot t, every snapshot is evaluated exactly
\* once, total[t] = kinetic[t] + potential[t], and no worker modifies the
\* trajectory
C8_EnergySeries == [](C8_Series) /\ [][C8_TrajectoryKept]_vars

\* three snapshots of different kinetic energy, finished in the order 2, 0, 1
C8_Witness ==
    /\ en_pc = "returned"
    /\ en_finished = <<2, 0, 1>>
    /\ en_out.kin_energy[0] # en_out.kin_energy[1]
    /\ en_out.kin_energy[1] # en_out.kin_energy[2]
    /\ en_out.pot_energy[0] # en_out.pot_energy[2]

----------------------------------------------------------------------------
(* Claims about the state barnes_hut.acceleration keeps                    *)

\* the tree of all bodies of P, inserted in order from body b on
RECURSIVE FillFrom(_, _, _, _)
FillFrom(tree, b, P, M) ==
    IF b = Len0(M) THEN Done(tree)
    ELSE LET r == add_body(tree, << >>, b, P, M)
         IN  IF r.err # "" THEN r ELSE FillFrom(r.tree, b + 1, P, M)

\* what a call with these arguments does on its own, as the first call made:
\* the error it raises, or the accelerations it returns
RunAlone(M, P, theta) ==
    LET filled == FillFrom(build_root(P), 0, P, M)
        accs == [i \in DOMAIN P |->
                    calculate_acceleration(filled.tree, << >>, i, theta, P, M)]
    IN  IF filled.err # "" THEN [err |-> filled.err, result |-> EmptyArr]
        ELSE IF \E i \in DOMAIN P : accs[i].err # ""
        THEN [err |-> "raised", result |-> EmptyArr]
        ELSE [err |-> "", result |-> [i \in DOMAIN P |-> accs[i].acc]]

\* the call of thread c ends as a call with its arguments ends on its own
EndsAsAlone(c) ==
    LET alone == RunAlone(arg_m[c], arg_pos[c], arg_theta[c])
    IN  /\ pc[c] = "returned" => alone.err = "" /\ result[c] = alone.result
        /\ pc[c] = "raised" => alone.err # ""

\* while thread c builds or walks its tree, the positions and masses it looks
\* up are the arguments of its own call
ReadsOwnArguments(c) ==
    pc[c] \in {"fill", "calc"} => positions = arg_pos[c] /\ masses = arg_m[c]

\* C9: when two calls of barnes_hut.acceleration overlap, neither reads the
\* other's positions or masses while it builds or walks its tree, and each
\* returns what it returns when run alone
C9_NoSharedState ==
    \A c \in Threads : ReadsOwnArguments(c) /\ EndsAsAlone(c)

\* C10: in a sequence of calls of barnes_hut.acceleration every call builds
\* its tree from its own masses and positions only, the tree is dropped when
\* the call ends, and the call ends as if it were the first call ever made
C10_SequentialCallsIndependent ==
    /\ ReadsOwnArguments("t1")
    /\ EndsAsAlone("t1")
    /\ pc["t1"] = "calc" =>
          root["t1"] = FillFrom(build_root(arg_pos["t1"]), 0, arg_pos["t1"], arg_m["t1"]).tree
    /\ pc["t1"] \in {"idle", "set_positions", "set_masses", "build_root", "returned", "raised"}
          => root["t1"] = NoTree

\* a second call, of two bodies, has returned a non-zero acceleration while
\* the globals held before it the single body of the first call
C10_Witness ==
    /\ calls_made["t1"] = 2
    /\ pc["t1"] = "returned"
    /\ Len0(arg_m["t1"]) = 2
    /\ result["t1"][0] # VecZero

----------------------------------------------------------------------------
(* Claims about the geometry and the shape of the quadtree                 *)

\* the quads of the tree that have a parent, as <<path of the parent, index>>
ChildLinks(tree) ==
    {link \in (DOMAIN tree) \X (0..3) : Append(link[1], link[2]) \in DOMAIN tree}

\* C11: the child for quadrant index q of a parent with lower-left corner
\* (x, y) and half-size r is the square of side r with lower-left corner
\* (x, y), (x + r, y), (x, y + r), (x + r, y + r) for q = 0, 1, 2, 3
C11_SubQuadGeometry ==
    \A c \in Threads : \A link \in ChildLinks(root[c]) :
        LET parent == root[c][link[1]]
            q == link[2]
            child == root[c][Append(link[1], q)]
        IN  /\ child.x = parent.x + (IF q \in {1, 3} THEN parent.radius ELSE 0)
            /\ child.y = parent.y + (IF q \in {2, 3} THEN parent.radius ELSE 0)
            /\ 2 * child.radius = parent.radius

\* the least separation of two bodies: the larger of their two coordinate
\* differences, minimised over the pairs of bodies
MinSeparation(pos) ==
    LET sep(i, k) == Max2(Abs(pos[i][1] - pos[k][1]), Abs(pos[i][2] - pos[k][2]))
        seps == {sep(i, k) : i, k \in DOMAIN pos} \ {0}
    IN  CHOOSE v \in seps : \A u \in seps : v <= u

\* the depth at which quads are smaller than the least separation, so that
\* no quad of that depth can hold two bodies
SeparationDepth(pos) ==
    CHOOSE d \in 0..(MaxDepth + 2) :
        /\ root_size(pos) < MinSeparation(pos) * Pow2(d)
        /\ \A e \in 0..(d - 1) : root_size(pos) >= MinSeparation(pos) * Pow2(e)

\* C12: for n >= 2 bodies at pairwise distinct positions every insertion
\* into the root terminates, and the tree is no deeper than the separation
\* of the bodies requires
C12_BuildTerminates ==
    \A c \in Threads :
        (/\ pc[c] \notin {"idle", "set_positions", "set_masses", "build_root"}
         /\ Len0(arg_pos[c]) >= 2
         /\ Distinct(arg_pos[c]))
        => /\ pc[c] # "raised"
           /\ \A path \in DOMAIN root[c] : Len(path) <= SeparationDepth(arg_pos[c])

----------------------------------------------------------------------------
(* Claims about the traversal                                              *)

\* the bodies a visited quad stands for: all bodies below an approximated
\* quad, the occupant of an external quad taken directly, none for the
\* body's own quad
Covered(tree, visit) ==
    IF visit[1] = "approx" THEN SubtreeBodies(tree, visit[2])
    ELSE IF visit[1] = "direct" THEN {tree[visit[2]].body}
    ELSE {}

\* the mass a visited quad contributes
ContributedMass(tree, M, visit) ==
    IF visit[1] = "approx" THEN tree[visit[2]].total_mass
    ELSE IF visit[1] = "direct" THEN M[tree[visit[2]].body]
    ELSE 0

\* C13: with the default theta = 0.5 no quad whose subtree contains body i
\* is taken as a point mass in the evaluation for body i; the bodies that
\* contribute are exactly the other bodies, each through exactly one visited
\* quad, and the contributing mass is the sum of all masses minus mass[i]
C13_NoSelfInteraction ==
    \A c \in Threads :
        (pc[c] = "calc" /\ arg_theta[c] = ThetaDefault) =>
            \A i \in Rows(body_idx[c]) :
                LET vs == visited[c][i]
                    K == DOMAIN vs
                IN  /\ \A k \in K : i \notin Covered(root[c], vs[k])
                    /\ \A b \in (DOMAIN arg_m[c]) \ {i} :
                          Cardinality({k \in K : b \in Covered(root[c], vs[k])}) = 1
                    /\ SumOver(K, [k \in K |-> ContributedMass(root[c], arg_m[c], vs[k])])
                           = SumOver(DOMAIN arg_m[c], arg_m[c]) - arg_m[c][i]

----------------------------------------------------------------------------
(* Claims about the placement of bodies                                    *)

\* the bodies placed in a quadrant of a quad, with the quad and the index
Placements(c) ==
    {pl \in ChildLinks(root[c]) \X (DOMAIN arg_pos[c]) :
        pl[2] \in SubtreeBodies(root[c], Append(pl[1][1], pl[1][2]))}

\* the dividing lines of the quad at path, in units of 1 / Scale
MidX(c, path) == root[c][path].x + root[c][path].radius

MidY(c, path) == root[c][path].y + root[c][path].radius

\* C14 as claimed: a coordinate exactly on the dividing line belongs to the
\* greater half: a body is in the right half iff px >= x + r and in the
\* upper half iff py >= y + r
C14_TiesToGreaterHalf ==
    \A c \in Threads : Running(c) =>
        \A pl \in Placements(c) :
            LET path == pl[1][1]
                q == pl[1][2]
                p == arg_pos[c][pl[2]]
            IN  /\ (q \in {1, 3}) <=> (p[1] * Scale >= MidX(c, path))
                /\ (q \in {2, 3}) <=> (p[2] * Scale >= MidY(c, path))

\* C14, amended: a coordinate exactly on the dividing line belongs to the
\* lesser half: a body is in the right half iff px > x + r and in the upper
\* half iff py > y + r
C14_TiesToLesserHalf ==
    \A c \in Threads : Running(c) =>
        \A pl \in Placements(c) :
            LET path == pl[1][1]
                q == pl[1][2]
                p == arg_pos[c][pl[2]]
            IN  /\ (q \in {1, 3}) <=> (p[1] * Scale > MidX(c, path))
                /\ (q \in {2, 3}) <=> (p[2] * Scale > MidY(c, path))

\* a body with px = x + r and py = y + r of the root was placed in quadrant 0
C14_Witness ==
    /\ pc["t1"] = "calc"
    /\ \E pl \in Placements("t1") :
          /\ pl[1] = <<<< >>, 0>>
          /\ arg_pos["t1"][pl[2]][1] * Scale = MidX("t1", << >>)
          /\ arg_pos["t1"][pl[2]][2] * Scale = MidY("t1", << >>)

\* the quads of the tree that hold body b
Holders(tree, b) == {path \in DOMAIN tree : tree[path].body = b}

\* the bodies inserted so far by the call of thread c
Inserted(c) == IF pc[c] = "fill" THEN Rows(body_idx[c]) ELSE DOMAIN arg_m[c]

C15_Shape ==
    \A c \in Threads : Running(c) =>
        /\ \A path \in DOMAIN root[c] :
              is_internal(root[c], path) => root[c][path].body = NoBody
        /\ \A b \in Inserted(c) :
              /\ Cardinality(Holders(root[c], b)) = 1
              /\ \A path \in Holders(root[c], b) : ~is_internal(root[c], path)
        /\ \A path \in DOMAIN root[c] :
              root[c][path].body # NoBody => root[c][path].body \in Inserted(c)

\* an insertion that turns a filled external quad into an internal one
\* clears its slot and leaves the occupant below one of its children
C15_Split ==
    \A c \in Threads :
        (pc[c] = "fill" /\ pc'[c] = "fill") =>
            \A path \in (DOMAIN root[c]) \cap (DOMAIN root'[c]) :
                (root[c][path].body # NoBody /\ is_internal(root'[c], path)) =>
                    /\ root'[c][path].body = NoBody
                    /\ \E q \in Children(root'[c], path) :
                          root[c][path].body \in SubtreeBodies(root'[c], Append(path, q))

\* C15: after every completed insertion every quad is internal (a child, the
\* body slot empty) or external (no child, at most one body); an insertion
\* into a filled external quad moves the occupant into a child and clears
\* the slot; every inserted body is the occupant of exactly one external quad
C15_InternalOrExternal == [](C15_Shape) /\ [][C15_Split]_vars

\* three bodies are in the tree, the root was split and one of its children
\* was split again
C15_Witness ==
    /\ pc["t1"] = "calc"
    /\ Len0(arg_m["t1"]) = 3
    /\ is_internal(root["t1"], << >>)
    /\ \E q \in 0..3 : <<q>> \in DOMAIN root["t1"] /\ is_internal(root["t1"], <<q>>)

----------------------------------------------------------------------------
(* Claims about coincident bodies                                          *)

\* the first body that has the position of an earlier body
FirstRepeat(pos) ==
    LET repeats == {k \in DOMAIN pos : \E i \in DOMAIN pos : i < k /\ pos[i] = pos[k]}
    IN  CHOOSE k \in repeats : \A j \in repeats : k <= j

Started(c) == pc[c] \notin {"idle", "set_positions", "set_masses", "build_root"}

\* C16 as claimed: with two bodies at exactly the same position the
\* insertion of the second never terminates: the call neither returns nor
\* ends with an exception
C16_NeverTerminates ==
    \A c \in Threads :
        (Started(c) /\ ~Distinct(arg_pos[c])) => pc[c] = "fill"

\* C16, amended: with two bodies at exactly the same position the insertion
\* of the second never completes: the fill loop does not get past it and no
\* acceleration is calculated; the subdivision goes on until the recursion
\* limit of the interpreter ends the call with RecursionError
C16_NeverCompletes ==
    \A c \in Threads :
        (Started(c) /\ ~Distinct(arg_pos[c])) =>
            /\ pc[c] \in {"fill", "raised"}
            /\ pc[c] = "fill" => body_idx[c] <= FirstRepeat(arg_pos[c])
            /\ result[c] = EmptyArr

\* three bodies, the third at the place of the first: the call ended with
\* the exception
C16_Witness ==
    /\ pc["t1"] = "raised"
    /\ Len0(arg_pos["t1"]) = 3
    /\ arg_pos["t1"][0] = arg_pos["t1"][2]
    /\ arg_pos["t1"][0] # arg_pos["t1"][1]

----------------------------------------------------------------------------
(* Claims about the integration schemes                                    *)

\* the evaluations of the acceleration function so far
AccIds == {i \in DOMAIN defs : defs[i].op = "acc"}

\* the positions the acceleration function was evaluated at
AccArgs == {defs[i].x : i \in AccIds}

\* the integrator method has been entered
InRun(method) == sv_pc \in {"loop", "returned"} /\ sv_method = method

\* the steps t -> t + 1 that have ended
StepsDone == 0..(time_idx - 1)

\* id is the value of  p + c * dt * v
IsDrift(id, c, p, v) ==
    /\ id \in DOMAIN defs
    /\ defs[id].op = "axpy"
    /\ defs[id].c = c
    /\ defs[id].x = v
    /\ defs[id].y = p

\* id is the value of  v + c * dt * acc(masses, p), from an evaluation of
\* acc made for it
IsKick(id, c, v, p) ==
    /\ id \in DOMAIN defs
    /\ defs[id].op = "axpy"
    /\ defs[id].c = c
    /\ defs[id].y = v
    /\ defs[id].x = id - 1
    /\ defs[id].x \in AccIds
    /\ defs[defs[id].x].x = p

\* the array an update adds to
BaseOf(id) == IF id \in DOMAIN defs THEN defs[id].y ELSE 0

\* sums and multiples of coefficients
LinAdd(c1, c2) == [i \in 1..4 |-> c1[i] + c2[i]]

LinScale(n, c1) == [i \in 1..4 |-> n * c1[i]]

\* the ids were evaluated in the order of the sequence
Increasing(ids) == \A i \in 1..(Len(ids) - 1) : ids[i] < ids[i + 1]

LeapfrogStep(t) ==
    LET P == sv_pos[t + 1]
        V == sv_vel[t + 1]
        half == BaseOf(P)
    IN  /\ IsDrift(half, <<1, 0, 0, 0>>, sv_pos[t], sv_vel[t])
        /\ IsKick(V, <<2, 0, 0, 0>>, sv_vel[t], half)
        /\ IsDrift(P, <<1, 0, 0, 0>>, half, V)
        /\ Increasing(<<half, V - 1, V, P>>)
        /\ P # half
        /\ Cardinality({i \in AccIds : defs[i].x = half}) = 1
        /\ sv_pos[t] \notin {defs[i].x : i \in {a \in AccIds : a > half}}

\* C17: a leapfrog step is a half-drift with vel[t], then one evaluation of
\* the acceleration at the half-drifted position for a full kick giving
\* vel[t + 1], then a second half-drift with vel[t + 1]; so pos[t + 1] is
\* pos[t] + 0.5 dt vel[t] + 0.5 dt vel[t + 1], and the half-drifted position
\* held in slot t + 1 during the step is replaced before the step ends.
C17_Leapfrog ==
    InRun("leapfrog") =>
        /\ \A t \in StepsDone : LeapfrogStep(t)
        /\ acc_calls = time_idx + (IF stmt = 3 THEN 1 ELSE 0)
        /\ Cardinality(AccIds) = acc_calls
        /\ stmt \in {2, 3} => IsDrift(sv_pos[time_idx + 1], <<1, 0, 0, 0>>,
                                      sv_pos[time_idx], sv_vel[time_idx])

\* leapfrog returned three snapshots after two steps
C17_Witness ==
    /\ InRun("leapfrog")
    /\ sv_pc = "returned"
    /\ sv_time_steps = 3
    /\ time_idx = 2
    /\ acc_calls = 2

EulerStep(t) ==
    LET P == sv_pos[t + 1]
        V == sv_vel[t + 1]
    IN  /\ IsDrift(P, <<2, 0, 0, 0>>, sv_pos[t], sv_vel[t])
        /\ IsKick(V, <<2, 0, 0, 0>>, sv_vel[t], sv_pos[t])
        /\ Increasing(<<P, V - 1, V>>)
        /\ Cardinality({i \in AccIds : defs[i].x = sv_pos[t]}) = 1

\* C18: a forward Euler step sets pos[t + 1] = pos[t] + dt vel[t] and
\* vel[t + 1] = vel[t] + dt acc(pos[t]); the acceleration is evaluated once
\* per step, at pos[t], and not at the pos[t + 1] written just before.
C18_ForwardEuler ==
    InRun("forward_euler") =>
        /\ \A t \in StepsDone : EulerStep(t)
        /\ acc_calls = time_idx
        /\ Cardinality(AccIds) = acc_calls
        /\ AccArgs = {sv_pos[t] : t \in StepsDone}
        /\ stmt = 2 => IsDrift(sv_pos[time_idx + 1], <<2, 0, 0, 0>>,
                               sv_pos[time_idx], sv_vel[time_idx])

\* forward_euler returned three snapshots after two steps
C18_Witness ==
    /\ InRun("forward_euler")
    /\ sv_pc = "returned"
    /\ sv_time_steps = 3
    /\ time_idx = 2
    /\ acc_calls = 2

\* the nine updates of a pefrl step, read back from snapshot t + 1
PefrlChain(t) ==
    LET P == sv_pos[t + 1]
        V == sv_vel[t + 1]
        pos4 == BaseOf(P)
        vel3 == BaseOf(V)
        pos3 == BaseOf(pos4)
        vel2 == BaseOf(vel3)
        pos2 == BaseOf(pos3)
        vel1 == BaseOf(vel2)
        pos1 == BaseOf(pos2)
    IN  <<pos1, vel1, pos2, vel2, pos3, vel3, pos4, V, P>>

\* xi, 0.5 - lambda, chi, lambda, 1 - 2 (chi + xi), lambda, chi, 0.5 - lambda, xi
PefrlCoefs ==
    LET xi == <<0, 2, 0, 0>>
        lbd == <<0, 0, 2, 0>>
        chi == <<0, 0, 0, 2>>
        half == <<1, 0, 0, 0>>
        one == <<2, 0, 0, 0>>
        kick == LinAdd(half, LinScale(-1, lbd))
        middle == LinAdd(one, LinScale(-2, LinAdd(chi, xi)))
    IN  <<xi, kick, chi, lbd, middle, lbd, chi, kick, xi>>

PefrlStep(t) ==
    LET ch == PefrlChain(t)
        \* the position and the velocity the update u starts from and uses
        before(u) == IF u = 1 THEN sv_pos[t] ELSE IF u = 2 THEN sv_vel[t] ELSE ch[u - 2]
        just(u) == IF u = 1 THEN sv_vel[t] ELSE ch[u - 1]
    IN  /\ \A u \in {1, 3, 5, 7, 9} : IsDrift(ch[u], PefrlCoefs[u], before(u), just(u))
        /\ \A u \in {2, 4, 6, 8} : IsKick(ch[u], PefrlCoefs[u], before(u), just(u))
        /\ Increasing(ch)
        /\ Cardinality({i \in AccIds : sv_vel[t] < i /\ i < sv_vel[t + 1]}) = 4
        /\ LinAdd(defs[ch[1]].c, LinAdd(defs[ch[3]].c, LinAdd(defs[ch[5]].c,
                  LinAdd(defs[ch[7]].c, defs[ch[9]].c)))) = <<2, 0, 0, 0>>
        /\ LinAdd(defs[ch[2]].c, LinAdd(defs[ch[4]].c, LinAdd(defs[ch[6]].c,
                  defs[ch[8]].c))) = <<2, 0, 0, 0>>

\* C19: a PEFRL step evaluates the acceleration four times and is five
\* drifts and four kicks in the order drift xi, kick 0.5 - lambda, drift chi,
\* kick lambda, drift 1 - 2 (chi + xi), kick lambda, drift chi,
\* kick 0.5 - lambda, drift xi; each kick uses the acceleration at the
\* position of the drift just before it and each drift the velocity of the
\* kick just before it; the drift coefficients sum to 1 and so do the kick
\* coefficients.
C19_Pefrl ==
    InRun("pefrl") =>
        /\ \A t \in StepsDone : PefrlStep(t)
        /\ Cardinality(AccIds) = acc_calls
        /\ acc_calls = 4 * time_idx + (IF stmt = 9 THEN 4 ELSE (stmt - 1) \div 2)

\* pefrl returned three snapshots after two steps of nine updates
C19_Witness ==
    /\ InRun("pefrl")
    /\ sv_pc = "returned"
    /\ sv_time_steps = 3
    /\ time_idx = 2
    /\ acc_calls = 8

\* the last array of snapshot t: the arrays a step from t evaluates come after it
StepStart(t) == IF sv_pos[t] > sv_vel[t] THEN sv_pos[t] ELSE sv_vel[t]

\* id is  base + dt * (sum over the stages i < s of a[s][i] * slopes[i]),
\* the only entries of the buffer that reach it being slopes of stages before
\* s, evaluated after snapshot t
IsStage(id, s, base, slopes, t) ==
    /\ id \in DOMAIN defs
    /\ defs[id].op = "stage"
    /\ defs[id].s = s
    /\ defs[id].y = base
    /\ \A i \in 0..(Stages - 1) :
          i \in a_nonzero(s) => /\ i < s
                                /\ defs[id].row[i + 1] = slopes[i + 1]
                                /\ defs[id].row[i + 1] > StepStart(t)

\* stage s of the step from snapshot t, K and J being the slopes of that step
Rk8Stage(K, J, s, t) ==
    /\ IsStage(K[s + 1], s, sv_vel[t], J, t)
    /\ J[s + 1] \in AccIds
    /\ IsStage(defs[J[s + 1]].x, s, sv_pos[t], K, t)
    /\ Increasing(<<StepStart(t), K[s + 1], defs[J[s + 1]].x, J[s + 1]>>)
    /\ s > 0 => J[s] < K[s + 1]

\* id is  base + dt * (sum over the 13 stages of b[i] * slopes[i])
IsFinal(id, base, slopes) ==
    /\ id \in DOMAIN defs
    /\ defs[id].op = "final"
    /\ defs[id].y = base
    /\ defs[id].row = slopes

Rk8Step(t) ==
    LET P == sv_pos[t + 1]
        V == sv_vel[t + 1]
        K == IF P \in DOMAIN defs THEN defs[P].row ELSE << >>
        J == IF V \in DOMAIN defs THEN defs[V].row ELSE << >>
    IN  /\ Len(K) = Stages /\ Len(J) = Stages
        /\ IsFinal(P, sv_pos[t], K)
        /\ IsFinal(V, sv_vel[t], J)
        /\ \A s \in 0..(Stages - 1) : Rk8Stage(K, J, s, t)
        /\ J[Stages] < P /\ P < V
        /\ Cardinality({i \in AccIds : StepStart(t) < i /\ i < P}) = Stages

\* the stages of the running step that have been evaluated
StagesDone == IF stmt \in {3, 4} THEN 0..(Stages - 1) ELSE 0..(sub_step - 1)

\* C20: an rk8 step has 13 stages with one evaluation of the acceleration
\* each; stage s builds k[s] and the argument of its acceleration only from
\* the slopes of the stages before s of the same step, so that what k and j
\* keep from the step before never reaches it; the new position and velocity
\* are snapshot t plus dt times the b-weighted sum of the 13 slopes of the step.
C20_Rk8 ==
    InRun("rk8") =>
        /\ \A t \in StepsDone : Rk8Step(t)
        /\ Cardinality(AccIds) = acc_calls
        /\ acc_calls = Stages * time_idx + Cardinality(StagesDone)
        /\ sv_pc = "loop" /\ time_idx < sv_time_steps - 1 =>
              /\ \A s \in StagesDone : Rk8Stage(RowOf(rk_k), RowOf(rk_j), s, time_idx)
              /\ stmt = 2 => IsStage(rk_k[sub_step], sub_step, sv_vel[time_idx],
                                     RowOf(rk_j), time_idx)
              /\ stmt = 4 => IsFinal(sv_pos[time_idx + 1], sv_pos[time_idx], RowOf(rk_k))

\* the second step of rk8 is at its stage 1, k and j still holding the
\* slopes of the stages 1 to 12 of the first step
C20_Witness ==
    /\ InRun("rk8")
    /\ sv_pc = "loop"
    /\ time_idx = 1
    /\ sub_step = 1
    /\ stmt = 2
    /\ \A s \in 2..(Stages - 1) : rk_k[s] # 0 /\ rk_k[s] < StepStart(1)
    /\ \A s \in 1..(Stages - 1) : rk_j[s] # 0 /\ rk_j[s] < StepStart(1)

----------------------------------------------------------------------------
(* Claims about the arguments of the acceleration functions                *)

\* the quads of the tree of call c whose center_of_mass shares the memory of
\* row i of positions
ViewsOf(c, i) == {path \in DOMAIN root[c] : root[c][path].com_view = i}

\* call c has bound the global positions, or the global masses as well, to
\* its argument
PositionsBound(c) == pc[c] \in {"set_masses", "build_root", "fill", "calc", "returned", "raised"}

MassesBound(c) == pc[c] \in {"build_root", "fill", "calc", "returned", "raised"}

\* the arrays handed to barnes_hut.acceleration hold what they held at the
\* call, in the rows read through the global and in the rows read through a
\* quad's center_of_mass
ArgumentsKept(c) ==
    /\ PositionsBound(c) =>
          /\ positions = arg_pos[c]
          /\ \A i \in DOMAIN arg_pos[c] : \A path \in ViewsOf(c, i) :
                root[c][path].center_of_mass = RatVec(arg_pos[c][i])
          /\ \A path \in DOMAIN root[c] :
                root[c][path].com_view \in DOMAIN arg_pos[c] \cup {NoBody}
    /\ MassesBound(c) => masses = arg_m[c]

\* a step writes the arguments of no call: those of barnes_hut.acceleration
\* change when the next call begins, a global when a call binds it, those of
\* the direct sums never
ArgumentsStep ==
    /\ \A c \in Threads :
          arg_pos'[c] # arg_pos[c] \/ arg_m'[c] # arg_m[c] =>
              pc[c] \in {"idle", "returned", "raised"} /\ pc'[c] = "set_positions"
    /\ positions' # positions => \E c \in Threads : pc[c] = "set_positions"
    /\ masses' # masses => \E c \in Threads : pc[c] = "set_masses"
    /\ ds_pos' = ds_pos
    /\ ds_masses' = ds_masses

\* C21: direct_sum.acceleration, direct_sum.acceleration_vec and
\* barnes_hut.acceleration leave the masses and the positions passed in as
\* they were, also while quads of the tree hold a view of a body's row of
\* positions as their center_of_mass.
C21_ArgumentsUnchanged ==
    /\ [](\A c \in Threads : ArgumentsKept(c))
    /\ [][ArgumentsStep]_vars

\* the tree of a call was split and filled, two of its quads holding views
\* of rows of positions, and both direct sums have returned for two bodies
C21_Witness ==
    /\ pc["t1"] = "calc"
    /\ is_internal(root["t1"], << >>)
    /\ root["t1"][<< >>].com_view = NoBody
    /\ ViewsOf("t1", 0) # {}
    /\ ViewsOf("t1", 1) # {}
    /\ ds_pc = "done"
    /\ Len0(ds_masses) = 2

====
